---- MODULE Spec2Model ----
(***************************************************************************)
(* A model of the obliqueme generation core: GenerationContext and         *)
(* GenerationManager (src/generation/context.py), the LLMAgent queue       *)
(* consumer (src/agents/llm_agent.py) and the MessageHandler agent         *)
(* registry with its callback (src/cogs/message_handler.py).               *)
(*                                                                         *)
(* Python sequences are 0-based, TLA+ sequences 1-based: history[i] of the *)
(* source is history[i + 1] here; current_index keeps the source's         *)
(* 0-based value.                                                          *)
(***************************************************************************)
EXTENDS Integers, Sequences, FiniteSets, TLC

VARIABLES
    gc,         \* SpecCtx: one GenerationContext
    added,      \* SpecCtx: every content ever passed to add_generation, in call order
    last,       \* SpecCtx: the last call made on gc: its name, argument and return value
    gm,         \* the GenerationManager: contexts, user_contexts, guild_contexts
    heap,       \* the GenerationContext objects created so far; a reference is an index
    next_msg,   \* the id the platform gives the next message sent through a webhook
    lastm,      \* the last call made on gm: its name, message id and context reference
    agents,     \* MessageHandler.agents: agent key -> the LLMAgent (its user and model)
    queue,      \* agent key -> the tasks waiting in that LLMAgent's asyncio.Queue
    tasks,      \* the data dicts handed to enqueue_message, in the order of the calls
    run,        \* per task: where its handle_message pipeline stands
    appends,    \* per context object: the tasks whose callbacks appended to its
                \* history, in order, a run of appends by one task written once
    rerolls,    \* the reroll handlers suspended in the "Regenerating..." edit
    ptasks,     \* SpecPipeline: per enqueued task its completions, the callback
                \* invocations made for it and how its processing ended
    pqueue,     \* SpecPipeline: the tasks waiting in the agent's asyncio.Queue
    pcur,       \* SpecPipeline: the await the consumer task is suspended at
    consumer,   \* SpecPipeline: the state of the consumer task (self.task)
    shut,       \* SpecPipeline: where a shutdown() call stands
    session,    \* SpecPipeline: the aiohttp session of the agent
    call,       \* SpecCall: one completion call: its payload, retry loop and caller
    clicks,     \* the messages whose commit, delete or cancel button was clicked
                \* by the owner and handled to the end
    fcalls,     \* SpecFanout: per agent the completion calls of its task
    permits,    \* SpecFanout: per agent the value of its Semaphore (self.rate_limit)
    fstage,     \* SpecFanout: per agent where handle_message stands and the
                \* callbacks invoked
    txt,        \* SpecText: a raw completion and what process_response makes of it
    fetched,    \* SpecPrompt: the messages channel.history has yielded, in that order
    the_prompt, \* SpecPrompt: the prompt handle_message built from them
    stxt,       \* SpecSelf: a raw completion and what process_response makes of
                \* it in self mode
    ui          \* SpecUI: the session's message as last rendered, and the last
                \* button handled

ctxVars == <<gc, added, last>>

mgrVars == <<gm, heap, next_msg, lastm>>

agentVars == <<agents, queue, tasks, run, appends, rerolls>>

pipeVars == <<ptasks, pqueue, pcur, consumer, shut, session>>

callVars == <<call>>

fanVars == <<fcalls, permits, fstage>>

textVars == <<txt>>

uiVars == <<clicks>>

promptVars == <<fetched, the_prompt>>

selfVars == <<stxt>>

viewVars == <<ui>>

moreVars == <<promptVars, selfVars, viewVars>>

llmVars == <<pipeVars, callVars, fanVars, textVars, moreVars>>

\* What the steps of SpecCtx, and those of SpecMgr, leave alone
notCtxVars == <<mgrVars, agentVars, llmVars, uiVars>>

notMgrVars == <<ctxVars, agentVars, llmVars, uiVars>>

\* What the steps of SpecPipeline, and those of SpecCall, leave alone
notPipeVars == <<ctxVars, mgrVars, agentVars, uiVars, callVars, fanVars, textVars, moreVars>>

notCallVars == <<ctxVars, mgrVars, agentVars, uiVars, pipeVars, fanVars, textVars, moreVars>>

\* What the steps of SpecFanout, and those of SpecText, leave alone
notFanVars == <<ctxVars, mgrVars, agentVars, uiVars, pipeVars, callVars, textVars, moreVars>>

notTextVars == <<ctxVars, mgrVars, agentVars, uiVars, pipeVars, callVars, fanVars, moreVars>>

\* What the steps of SpecPrompt, of SpecSelf and of SpecUI leave alone
notPromptVars == <<ctxVars, mgrVars, agentVars, uiVars, pipeVars, callVars, fanVars,
                   textVars, selfVars, viewVars>>

notSelfVars == <<ctxVars, mgrVars, agentVars, uiVars, pipeVars, callVars, fanVars,
                 textVars, promptVars, viewVars>>

notViewVars == <<added, last, mgrVars, agentVars, uiVars, pipeVars, callVars, fanVars,
                 textVars, promptVars, selfVars>>

vars == <<gc, added, last, gm, heap, next_msg, lastm,
          agents, queue, tasks, run, appends, rerolls,
          ptasks, pqueue, pcur, consumer, shut, session, call,
          clicks, fcalls, permits, fstage, txt, fetched, the_prompt, stxt, ui>>

----------------------------------------------------------------------------
(* Bounds *)

\* add_generation calls made on the context of SpecCtx
MaxAdds == 11

\* GenerationContext objects created
MaxCtx == 3

\* Messages sent through a webhook (each gets a fresh id from the platform)
MaxMsgs == 3

\* Message ids
MsgIds == 1 .. MaxMsgs

\* Users (owner_id) and guilds (guild_id)
Users == {"u1", "u2"}

Guilds == {"g1", "g2"}

\* enqueue_message calls made (SpecHandler)
MaxTasks == 2

\* enqueue_message calls made (SpecAgent)
MaxEnqueued == 3

\* Sessions created by the triggers (SpecHandler)
MaxSessions == 2

\* enqueue_message calls made (SpecPipeline)
MaxPipeTasks == 2

\* The pieces of a raw completion (SpecText)
MaxTextLen == 3

\* add_generation calls made on the session of SpecUI, and those of them made
\* with the no-valid-response page and by the trim button
MaxUIAdds == 11

MaxNotices == 1

MaxTrims == 1

\* The pieces of a raw completion (SpecSelf)
MaxSelfLen == 6

\* Messages channel.history yields for one prompt (SpecPrompt)
MaxHistory == 3

\* Generation texts
Texts == {"a", "b"}

\* Python's None
None == "<None>"

\* None where a message id is expected (context.message_id before registration)
NoMessage == 0

\* None where a context reference is expected (dict.get on a missing key)
NoContext == 0

----------------------------------------------------------------------------
(* GenerationContext *)

\* deque(maxlen=10)
maxlen == 10

\* (mutant) an append that never evicts
DequeAppendUnbounded(h, x) == Append(h, x)

\* deque.append on a bounded deque: a full deque drops its leftmost item
DequeAppend(h, x) ==
    IF Len(h) >= maxlen THEN Tail(h) \o <<x>> ELSE Append(h, x)

\* GenerationContext.__init__ (the fields the model reads)
NewContext(owner_id, guild_id, webhook_name, model_key) ==
    [ owner_id      |-> owner_id,
      guild_id      |-> guild_id,
      webhook_name  |-> webhook_name,
      model_key     |-> model_key,
      history       |-> << >>,
      current_index |-> 0,
      message_id    |-> NoMessage ]

\* (mutant) current_index set to the length, one past the tail
TailIndexPastEnd(h) == Len(h)

\* The index add_generation leaves current_index at
TailIndex(h) == Len(h) - 1

\* GenerationContext.add_generation
add_generation(c, content) ==
    LET h == DequeAppend(c.history, content)
    IN  [c EXCEPT !.history = h, !.current_index = TailIndex(h)]

\* (mutant) the lower bound tested strictly: index 0 is refused
InRangeStrict(index, h) == 0 < index /\ index < Len(h)

\* The test of navigate: 0 <= index < len(self.history)
InRange(index, h) == 0 <= index /\ index < Len(h)

\* (mutant) current_index assigned before the range test
navigateAssignFirst(c, index) ==
    [ ctx |-> [c EXCEPT !.current_index = index],
      ret |-> IF InRange(index, c.history) THEN c.history[index + 1] ELSE None ]

\* GenerationContext.navigate: the context afterwards and the value returned
navigate(c, index) ==
    IF InRange(index, c.history)
    THEN [ctx |-> [c EXCEPT !.current_index = index], ret |-> c.history[index + 1]]
    ELSE [ctx |-> c, ret |-> None]

\* GenerationContext.current_content
current_content(c) ==
    IF c.history # << >> /\ 0 <= c.current_index /\ c.current_index < Len(c.history)
    THEN c.history[c.current_index + 1]
    ELSE None

----------------------------------------------------------------------------
(* SpecCtx: the calls made on one GenerationContext.  Each is a coroutine   *)
(* without an await inside, so it runs as one step of the event loop.       *)

\* Indexes handed to navigate
NavArgs == -2 .. (maxlen + 1)

InitCtx ==
    /\ gc = NewContext("u1", "g1", "hook", "m1")
    /\ added = << >>
    /\ last = [op |-> "init", arg |-> None, ret |-> None]

\* await context.add_generation(text): llm_callback and the trim action
AddGeneration(text) ==
    /\ Len(added) < MaxAdds
    /\ gc' = add_generation(gc, text)
    /\ added' = Append(added, text)
    /\ last' = [op |-> "add_generation", arg |-> text, ret |-> None]
    /\ UNCHANGED notCtxVars

\* await context.navigate(index)
Navigate(index) ==
    /\ gc' = navigate(gc, index).ctx
    /\ last' = [op |-> "navigate", arg |-> index, ret |-> navigate(gc, index).ret]
    /\ UNCHANGED <<added, notCtxVars>>

\* on_interaction, custom_id "prev": navigate(current_index - 1)
OnPrev == Navigate(gc.current_index - 1)

\* on_interaction, custom_id "next": navigate(current_index + 1)
OnNext == Navigate(gc.current_index + 1)

NextCtx ==
    \/ \E text \in Texts : AddGeneration(text)
    \/ \E index \in NavArgs : Navigate(index)
    \/ OnPrev
    \/ OnNext

----------------------------------------------------------------------------
(* GenerationManager.  dicts are functions whose domain is the key set;     *)
(* the two secondary indexes hold Python lists.                             *)

\* d[k] = v
DictSet(d, k, v) == [x \in (DOMAIN d) \cup {k} |-> IF x = k THEN v ELSE d[x]]

\* d.pop(k)
DictPop(d, k) == [x \in (DOMAIN d) \ {k} |-> d[x]]

\* if k not in d: d[k] = []
DictSetDefaultList(d, k) == IF k \in DOMAIN d THEN d ELSE DictSet(d, k, << >>)

\* The number of occurrences of x in list s
Count(s, x) == Cardinality({i \in DOMAIN s : s[i] = x})

\* list.remove(x): the first occurrence of x is removed
\* (ValueError when x is absent: the caller then never gets here)
ListRemove(s, x) ==
    LET i == CHOOSE j \in DOMAIN s : s[j] = x /\ \A l \in 1 .. (j - 1) : s[l] # x
    IN  SubSeq(s, 1, i - 1) \o SubSeq(s, i + 1, Len(s))

\* GenerationManager.__init__
NewManager == [contexts |-> << >>, user_contexts |-> << >>, guild_contexts |-> << >>]

\* GenerationManager.create_context: the manager afterwards (the new context
\* object itself is allocated by the caller's step)
create_context(m, owner_id, guild_id) ==
    [m EXCEPT !.user_contexts = DictSetDefaultList(@, owner_id),
              !.guild_contexts = DictSetDefaultList(@, guild_id)]

\* (mutant) the message id appended to the owner's list twice
register_messageTwice(m, h, ref, message_id) ==
    [ contexts       |-> DictSet(m.contexts, message_id, ref),
      user_contexts  |-> [m.user_contexts EXCEPT
                             ![h[ref].owner_id] = Append(Append(@, message_id), message_id)],
      guild_contexts |-> [m.guild_contexts EXCEPT ![h[ref].guild_id] = Append(@, message_id)] ]

\* GenerationManager.register_message: the manager afterwards, for the
\* context object at reference ref
register_message(m, h, ref, message_id) ==
    [ contexts       |-> DictSet(m.contexts, message_id, ref),
      user_contexts  |-> [m.user_contexts EXCEPT ![h[ref].owner_id] = Append(@, message_id)],
      guild_contexts |-> [m.guild_contexts EXCEPT ![h[ref].guild_id] = Append(@, message_id)] ]

\* GenerationManager.get_context: a reference, or None
get_context(m, message_id) ==
    IF message_id \in DOMAIN m.contexts THEN m.contexts[message_id] ELSE NoContext

\* (mutant) an id that is not registered empties the manager
remove_contextResets(m, h, message_id) ==
    IF get_context(m, message_id) # NoContext
    THEN LET c == h[m.contexts[message_id]]
         IN  [ contexts       |-> DictPop(m.contexts, message_id),
               user_contexts  |-> [m.user_contexts EXCEPT ![c.owner_id] = ListRemove(@, message_id)],
               guild_contexts |-> [m.guild_contexts EXCEPT ![c.guild_id] = ListRemove(@, message_id)] ]
    ELSE NewManager

\* (mutant) the guild list is left as it is
remove_contextKeepsGuild(m, h, message_id) ==
    IF get_context(m, message_id) # NoContext
    THEN LET c == h[m.contexts[message_id]]
         IN  [ contexts       |-> DictPop(m.contexts, message_id),
               user_contexts  |-> [m.user_contexts EXCEPT ![c.owner_id] = ListRemove(@, message_id)],
               guild_contexts |-> m.guild_contexts ]
    ELSE m

\* GenerationManager.remove_context
remove_context(m, h, message_id) ==
    IF get_context(m, message_id) # NoContext
    THEN LET c == h[m.contexts[message_id]]
         IN  [ contexts       |-> DictPop(m.contexts, message_id),
               user_contexts  |-> [m.user_contexts EXCEPT ![c.owner_id] = ListRemove(@, message_id)],
               guild_contexts |-> [m.guild_contexts EXCEPT ![c.guild_id] = ListRemove(@, message_id)] ]
    ELSE m

----------------------------------------------------------------------------
(* SpecMgr: the calls made on the GenerationManager.  None of its           *)
(* coroutines awaits, so each call is one step of the event loop.  A        *)
(* context is registered once, under the id of the message that was just    *)
(* sent for it (oblique_command, handle_keyword); ids are the platform's,    *)
(* never reused.                                                            *)

InitMgr ==
    /\ gm = NewManager
    /\ heap = << >>
    /\ next_msg = 1
    /\ lastm = [op |-> "init", id |-> NoMessage, ref |-> NoContext]

\* context = await generation_manager.create_context(owner_id, guild_id, ...)
CreateContext(owner_id, guild_id) ==
    /\ Len(heap) < MaxCtx
    /\ heap' = Append(heap, NewContext(owner_id, guild_id, "hook", "m1"))
    /\ gm' = create_context(gm, owner_id, guild_id)
    /\ lastm' = [op |-> "create_context", id |-> NoMessage, ref |-> Len(heap) + 1]
    /\ UNCHANGED <<next_msg, notMgrVars>>

\* await generation_manager.register_message(context, sent_message.id)
RegisterMessage(ref) ==
    /\ next_msg <= MaxMsgs
    /\ heap[ref].message_id = NoMessage
    /\ heap' = [heap EXCEPT ![ref].message_id = next_msg]
    /\ gm' = register_message(gm, heap, ref, next_msg)
    /\ next_msg' = next_msg + 1
    /\ lastm' = [op |-> "register_message", id |-> next_msg, ref |-> ref]
    /\ UNCHANGED notMgrVars

\* await generation_manager.remove_context(message_id)
RemoveContext(message_id) ==
    /\ gm' = remove_context(gm, heap, message_id)
    /\ lastm' = [op |-> "remove_context", id |-> message_id, ref |-> NoContext]
    /\ UNCHANGED <<heap, next_msg, notMgrVars>>

NextMgr ==
    \/ \E o \in Users, g \in Guilds : CreateContext(o, g)
    \/ \E ref \in DOMAIN heap : RegisterMessage(ref)
    \/ \E id \in MsgIds : RemoveContext(id)

----------------------------------------------------------------------------
(* MessageHandler and LLMAgent.                                             *)
(*                                                                          *)
(* Everything runs on one asyncio event loop: a step of the model is the    *)
(* code a coroutine runs between two awaits that suspend it.  The calls on  *)
(* the WebhookManager (send_via_webhook, edit_via_webhook,                  *)
(* delete_webhook_message) are modelled at the handler's call sites as      *)
(* awaits on the rendering collaborator that return; note that              *)
(* WebhookManager.send_via_webhook and edit_via_webhook as they stand in    *)
(* src/cogs/webhook_manager.py (lines 280, 341) take no target_channel_id   *)
(* keyword, which the handler passes.                                       *)

\* The guild the interactions and messages of SpecHandler come from
HomeGuild == "g1"

\* The keys of config.get_models()
ModelKeys == {"m1", "m2"}

\* config.get_default_model_key()
DefaultModelKey == "m1"

\* model_config.get('model_id', 'default'), the model config given by its key
ModelId(model_key) == IF model_key = "m1" THEN "id1" ELSE "id2"

\* The replacement_text process_response gives for one completion: the error
\* text of an empty completion, or a text
ProcessedTexts == {"Error: No response from LLM.", "a"}

\* handle_message, the page sent when no completion is valid
NoValidText == "No valid response generated. Please try again."

\* handle_message requests three completions
NumCompletions == 3

\* get_or_create_agent: the key of the agent, model_config being a model key
\* or None
AgentKey(user_id, model_config) ==
    IF model_config # None
    THEN <<user_id, ModelId(model_config)>>
    ELSE <<user_id, "default">>

\* get_or_create_agent / LLMAgent.__init__: the model the agent generates with
AgentModel(model_config) ==
    IF model_config # None THEN model_config ELSE DefaultModelKey

\* get_or_create_agent: the registry afterwards and the key of the agent
\* returned.  The lock is free whenever it is taken (no holder awaits inside
\* it), so the lookup and the creation are one step.
get_or_create_agent(ags, user_id, model_config) ==
    LET k == AgentKey(user_id, model_config)
    IN  [ key    |-> k,
          agents |-> IF k \in DOMAIN ags
                     THEN ags
                     ELSE DictSet(ags, k, [ user_id |-> user_id,
                                            model   |-> AgentModel(model_config) ]) ]

\* (mutant) the task is put twice
enqueue_messageTwice(q, t) == Append(Append(q, t), t)

\* LLMAgent.enqueue_message: queue.put on the unbounded queue
enqueue_message(q, t) == Append(q, t)

\* (mutant) the consumer takes the newest task
QueueGetNewest(q) == [item |-> q[Len(q)], rest |-> SubSeq(q, 1, Len(q) - 1)]

\* process_queue: data = await self.queue.get()
QueueGet(q) == [item |-> Head(q), rest |-> Tail(q)]

\* The stages of a task inside handle_message
InFlight == {"requesting", "callbacks", "rendering"}

\* (mutant) the consumer starts handle_message without awaiting its end
ConsumerIdleNever(k) == TRUE

\* process_queue awaits handle_message before it comes back to queue.get():
\* the consumer of agent k is at queue.get()
ConsumerIdle(k) ==
    \A t \in DOMAIN tasks : tasks[t].key = k => run[t].stage \notin InFlight

\* (mutant) a text is valid unless it is the error text
ValidCompletionsKeepBlank(processed) ==
    SelectSeq(processed, LAMBDA x : x # "Error: No response from LLM.")

\* handle_message, lines 94-101: the valid completions, in the order returned
ValidCompletions(processed) ==
    SelectSeq(processed, LAMBDA x : x # "" /\ x # "Error: No response from LLM.")

\* The record of appenders: task t appended next
NoteAppend(log, t) ==
    IF log # << >> /\ log[Len(log)] = t THEN log ELSE Append(log, t)

InitHandler ==
    /\ clicks = {}
    /\ agents = << >>
    /\ queue = << >>
    /\ tasks = << >>
    /\ run = << >>
    /\ appends = << >>
    /\ rerolls = {}

\* agent = await self.get_or_create_agent(user_id, model_config)
\* await agent.enqueue_message(data)
Submit(user_id, model_config, message_id, kind) ==
    LET g == get_or_create_agent(agents, user_id, model_config)
        q == IF g.key \in DOMAIN queue THEN queue[g.key] ELSE << >>
    IN  /\ agents' = g.agents
        /\ tasks' = Append(tasks, [ key |-> g.key, message_id |-> message_id,
                                    user_id |-> user_id, kind |-> kind ])
        /\ queue' = DictSet(queue, g.key, enqueue_message(q, Len(tasks) + 1))
        /\ run' = Append(run, [stage |-> "queued", cbs |-> << >>, next |-> 1])

\* The session a trigger creates once its placeholder message is sent:
\* create_context, register_message
NewSession(owner_id, guild_id, webhook_name, model_key) ==
    /\ heap' = Append(heap, [NewContext(owner_id, guild_id, webhook_name, model_key)
                                EXCEPT !.message_id = next_msg])
    /\ appends' = Append(appends, << >>)
    /\ gm' = register_message(create_context(gm, owner_id, guild_id),
                              heap', Len(heap) + 1, next_msg)
    /\ next_msg' = next_msg + 1
    /\ lastm' = [op |-> "register_message", id |-> next_msg, ref |-> Len(heap) + 1]

\* oblique_command: the slash command with its model (the default one when
\* none is chosen)
ObliqueCommand(user_id, guild_id, model_key) ==
    /\ NewSession(user_id, guild_id, "hook", model_key)
    /\ Submit(user_id, model_key, next_msg, "slash")
    /\ UNCHANGED <<uiVars, llmVars, ctxVars, rerolls>>

\* handle_keyword: the keyword trigger; its context stores neither a
\* webhook_name nor a model_key
HandleKeyword(user_id, guild_id) ==
    /\ NewSession(user_id, guild_id, None, None)
    /\ Submit(user_id, DefaultModelKey, next_msg, "keyword")
    /\ UNCHANGED <<uiVars, llmVars, ctxVars, rerolls>>

\* on_interaction, "reroll", up to the await of the "Regenerating..." edit
RerollStart(user_id, message_id) ==
    /\ get_context(gm, message_id) # NoContext
    /\ heap[get_context(gm, message_id)].webhook_name # None
    /\ [user_id |-> user_id, message_id |-> message_id] \notin rerolls
    /\ rerolls' = rerolls \cup {[user_id |-> user_id, message_id |-> message_id]}
    /\ UNCHANGED <<uiVars, llmVars, ctxVars, mgrVars, agents, queue, tasks, run, appends>>

\* on_interaction, "reroll", after that await:
\* agent = await self.get_or_create_agent(user_id); enqueue_message(data)
RerollEnqueue(r) ==
    /\ r \in rerolls
    /\ rerolls' = rerolls \ {r}
    /\ Submit(r.user_id, None, r.message_id, "reroll")
    /\ UNCHANGED <<uiVars, llmVars, ctxVars, mgrVars, appends>>

\* on_interaction, "commit", "delete" or "cancel": remove_context once the
\* message is edited or deleted
OnRemove(message_id) ==
    /\ get_context(gm, message_id) # NoContext
    /\ heap[get_context(gm, message_id)].webhook_name # None
    /\ gm' = remove_context(gm, heap, message_id)
    /\ lastm' = [op |-> "remove_context", id |-> message_id, ref |-> NoContext]
    /\ clicks' = clicks \cup {message_id}
    /\ UNCHANGED <<llmVars, ctxVars, heap, next_msg, agentVars>>

\* on_interaction, "commit", "delete" or "cancel", lines 616-625 and 638-647:
\* the handler returns when the message has no context or its context stores
\* no webhook_name
OnRemoveReturn(message_id) ==
    /\ \/ get_context(gm, message_id) = NoContext
       \/ /\ get_context(gm, message_id) # NoContext
          /\ heap[get_context(gm, message_id)].webhook_name = None
    /\ clicks' = clicks \cup {message_id}
    /\ UNCHANGED <<llmVars, ctxVars, mgrVars, agentVars>>

\* process_queue: the consumer of agent k takes the next task and enters
\* handle_message
Dequeue(k) ==
    /\ ConsumerIdle(k)
    /\ queue[k] # << >>
    /\ queue' = [queue EXCEPT ![k] = QueueGet(queue[k]).rest]
    /\ run' = [run EXCEPT ![QueueGet(queue[k]).item].stage = "requesting"]
    /\ UNCHANGED <<uiVars, llmVars, ctxVars, mgrVars, agents, tasks, appends, rerolls>>

\* handle_message up to the callback phase: the prompt is formatted, the
\* completions are back and processed
Complete(t, processed) ==
    /\ run[t].stage = "requesting"
    /\ run' = [run EXCEPT ![t] =
                  [ stage |-> "callbacks",
                    cbs   |-> IF ValidCompletions(processed) = << >>
                              THEN <<NoValidText>>
                              ELSE ValidCompletions(processed),
                    next  |-> 1 ]]
    /\ UNCHANGED <<uiVars, llmVars, ctxVars, mgrVars, agents, queue, tasks, appends, rerolls>>

\* (mutant) the context is looked up among all the contexts ever created
get_webhook_from_contextEver(m, h, message_id) ==
    IF \E ref \in DOMAIN h : h[ref].message_id = message_id /\ h[ref].webhook_name # None
    THEN CHOOSE ref \in DOMAIN h :
            h[ref].message_id = message_id /\ h[ref].webhook_name # None
    ELSE NoContext

\* get_webhook_from_context: the context registered for the message, when it
\* stores a webhook_name; else (None, None)
get_webhook_from_context(m, h, message_id) ==
    IF get_context(m, message_id) # NoContext
    THEN IF h[get_context(m, message_id)].webhook_name # None
         THEN get_context(m, message_id)
         ELSE NoContext
    ELSE NoContext

\* await self.callback(data, replacement_text, page, total_pages): llm_callback
\* up to its await of edit_via_webhook.  Without a registered context or a
\* stored webhook_name it returns at once.
CallbackBegin(t) ==
    LET ref == get_webhook_from_context(gm, heap, tasks[t].message_id)
        found == ref # NoContext
    IN  /\ run[t].stage = "callbacks"
        /\ run[t].next <= Len(run[t].cbs)
        /\ IF found
           THEN /\ heap' = [heap EXCEPT ![ref] = add_generation(@, run[t].cbs[run[t].next])]
                /\ appends' = [appends EXCEPT ![ref] = NoteAppend(@, t)]
                /\ run' = [run EXCEPT ![t].stage = "rendering"]
           ELSE /\ run' = [run EXCEPT ![t].next = @ + 1]
                /\ UNCHANGED <<heap, appends>>
        /\ UNCHANGED <<uiVars, llmVars, ctxVars, gm, next_msg, lastm, agents, queue, tasks, rerolls>>

\* llm_callback returns once the edit of the message is done
CallbackEnd(t) ==
    /\ run[t].stage = "rendering"
    /\ run' = [run EXCEPT ![t].stage = "callbacks", ![t].next = @ + 1]
    /\ UNCHANGED <<uiVars, llmVars, ctxVars, mgrVars, agents, queue, tasks, appends, rerolls>>

\* handle_message returns after the last callback; process_queue calls
\* task_done and goes back to queue.get()
TaskDone(t) ==
    /\ run[t].stage = "callbacks"
    /\ run[t].next > Len(run[t].cbs)
    /\ run' = [run EXCEPT ![t] = [stage |-> "done", cbs |-> << >>, next |-> 1]]
    /\ UNCHANGED <<uiVars, llmVars, ctxVars, mgrVars, agents, queue, tasks, appends, rerolls>>

\* Fewer than n sessions were created
SessionRoom(n) == Len(heap) < n

\* Fewer than n tasks were enqueued or are about to be
TaskRoom(n) == Len(tasks) + Cardinality(rerolls) < n

\* The ids of the placeholder messages sent so far
SentIds == 1 .. (next_msg - 1)

\* The steps of the consumers and of the session's removal
AgentSteps ==
    \/ \E id \in SentIds : OnRemove(id)
    \/ \E id \in SentIds : OnRemoveReturn(id)
    \/ \E k \in DOMAIN agents : Dequeue(k)
    \/ \E t \in DOMAIN tasks, p \in [1 .. NumCompletions -> ProcessedTexts] : Complete(t, p)
    \/ \E t \in DOMAIN tasks : CallbackBegin(t)
    \/ \E t \in DOMAIN tasks : CallbackEnd(t)
    \/ \E t \in DOMAIN tasks : TaskDone(t)

\* SpecAgent: one LLMAgent, the one of user u1 and the default model, fed
\* by that user's slash commands and keyword messages
NextAgent ==
    \/ /\ SessionRoom(MaxEnqueued) /\ TaskRoom(MaxEnqueued)
       /\ ObliqueCommand("u1", HomeGuild, DefaultModelKey)
    \/ /\ SessionRoom(MaxEnqueued) /\ TaskRoom(MaxEnqueued)
       /\ HandleKeyword("u1", HomeGuild)
    \/ AgentSteps

NextHandler ==
    \/ /\ SessionRoom(MaxSessions) /\ TaskRoom(MaxTasks)
       /\ \E u \in Users, m \in ModelKeys : ObliqueCommand(u, HomeGuild, m)
    \/ /\ SessionRoom(MaxSessions) /\ TaskRoom(MaxTasks)
       /\ \E u \in Users : HandleKeyword(u, HomeGuild)
    \/ /\ TaskRoom(MaxTasks)
       /\ \E u \in Users, id \in SentIds : RerollStart(u, id)
    \/ \E r \in rerolls : RerollEnqueue(r)
    \/ AgentSteps

----------------------------------------------------------------------------
(* LLMAgent: the pipeline of one agent, its failures and its shutdown       *)
(* (SpecPipeline).                                                          *)
(*                                                                          *)
(* The callback is the function handed to LLMAgent.__init__: it may         *)
(* suspend, return or raise.  The consumer task is always suspended at an   *)
(* await when another coroutine runs: at queue.get(), inside the request    *)
(* phase of handle_message (format_messages and the completion calls) or    *)
(* inside a callback.  CancelledError derives from BaseException (Python    *)
(* 3.8 and later, which the annotations of message_handler.py require).     *)

\* The raw completions the API returns: nothing, blanks only, a text, a text
\* with blanks around it
RawTexts == {"", " ", "x", " y "}

\* str.strip() on the raw completions
Strip(text) ==
    CASE text = " "   -> ""
      [] text = " y " -> "y"
      [] OTHER        -> text

\* process_response: the error text for an empty response, else the cleaned
\* and stripped text
process_response(response_text) ==
    IF response_text = ""
    THEN "Error: No response from LLM."
    ELSE Strip(response_text)

\* for response_text in completions: process_response(response_text, data)
ProcessAll(completions) ==
    [i \in DOMAIN completions |-> process_response(completions[i])]

\* (mutant) total_pages is the number of completions requested and the page
\* is the position of the completion
PagesCountingEmpty(completions) ==
    LET processed == ProcessAll(completions)
        kept == SelectSeq([i \in DOMAIN processed |-> <<processed[i], i>>],
                          LAMBDA e : e[1] # "" /\ e[1] # "Error: No response from LLM.")
    IN  IF kept = << >>
        THEN << [text |-> NoValidText, page |-> 1, total_pages |-> 1] >>
        ELSE [i \in DOMAIN kept |->
                [text |-> kept[i][1], page |-> kept[i][2], total_pages |-> Len(completions)]]

\* handle_message, lines 94-113: the callback invocations it makes for the
\* completions returned, in order
Pages(completions) ==
    LET valid_completions == ValidCompletions(ProcessAll(completions))
    IN  IF valid_completions = << >>
        THEN << [text |-> NoValidText, page |-> 1, total_pages |-> 1] >>
        ELSE [i \in DOMAIN valid_completions |->
                [text |-> valid_completions[i], page |-> i,
                 total_pages |-> Len(valid_completions)]]

\* The exceptions raised inside a task that are not cancellation
Failures == {"Exception", "ClientError"}

\* (mutant) no except clause catches anything
CatchesNothing(clause, exc) == FALSE

\* (mutant) except Exception also catches CancelledError
CatchesCancelled(clause, exc) ==
    \/ clause = exc
    \/ clause = "Exception"

\* Does "except <clause>" catch exc: ClientError derives from Exception,
\* CancelledError from BaseException
Catches(clause, exc) ==
    \/ clause = exc
    \/ clause = "Exception" /\ exc = "ClientError"

\* handle_message, lines 132-135: an exception raised inside its try
handle_message_except(exc) ==
    IF Catches("Exception", exc) THEN "returns" ELSE "raises"

\* process_queue, lines 36-43: an exception raised by handle_message
process_queue_except(exc) ==
    IF Catches("Exception", exc) THEN "continues" ELSE "terminates"

\* What becomes of the consumer loop when exc is raised inside the pipeline
\* of the task it processes
ConsumerAfter(exc) ==
    IF handle_message_except(exc) = "returns"
    THEN "continues"
    ELSE process_queue_except(exc)

\* The consumer at queue.get()
Idle == [task |-> 0, stage |-> "idle"]

InitPipeline ==
    /\ ptasks = << >>
    /\ pqueue = << >>
    /\ pcur = Idle
    /\ consumer = "running"
    /\ shut = "no"
    /\ session = "open"

\* enqueue_message: queue.put(data)
PEnqueue ==
    /\ ptasks' = Append(ptasks, [completions |-> << >>, calls |-> << >>,
                                 outcome |-> "queued"])
    /\ pqueue' = enqueue_message(pqueue, Len(ptasks) + 1)
    /\ UNCHANGED <<pcur, consumer, shut, session, notPipeVars>>

\* process_queue: queue.get() returns the oldest task and handle_message
\* starts on it
PDequeue ==
    /\ consumer = "running"
    /\ pcur.stage = "idle"
    /\ pqueue # << >>
    /\ pcur' = [task |-> QueueGet(pqueue).item, stage |-> "requesting"]
    /\ pqueue' = QueueGet(pqueue).rest
    /\ ptasks' = [ptasks EXCEPT ![QueueGet(pqueue).item].outcome = "processing"]
    /\ UNCHANGED <<consumer, shut, session, notPipeVars>>

\* handle_message, lines 81-113: the completions are back; they are processed
\* and filtered and the first callback is invoked
PCompletions(completions) ==
    /\ consumer = "running"
    /\ pcur.stage = "requesting"
    /\ ptasks' = [ptasks EXCEPT ![pcur.task].completions = completions,
                                ![pcur.task].calls = <<Pages(completions)[1]>>]
    /\ pcur' = [pcur EXCEPT !.stage = "in_callback"]
    /\ UNCHANGED <<pqueue, consumer, shut, session, notPipeVars>>

\* The callback returns: the next callback is invoked, or handle_message
\* returns and process_queue goes back to queue.get()
PCallbackReturn ==
    LET t == pcur.task
        pages == Pages(ptasks[t].completions)
    IN  /\ consumer = "running"
        /\ pcur.stage = "in_callback"
        /\ IF Len(ptasks[t].calls) < Len(pages)
           THEN /\ ptasks' = [ptasks EXCEPT ![t].calls =
                                 Append(@, pages[Len(ptasks[t].calls) + 1])]
                /\ UNCHANGED pcur
           ELSE /\ ptasks' = [ptasks EXCEPT ![t].outcome = "returned"]
                /\ pcur' = Idle
        /\ UNCHANGED <<pqueue, consumer, shut, session, notPipeVars>>

\* An exception that is not cancellation is raised in the request phase
\* (formatting, logging, completion call, response processing) or by the
\* callback
PRaise(exc) ==
    /\ consumer = "running"
    /\ pcur.stage \in {"requesting", "in_callback"}
    /\ ptasks' = [ptasks EXCEPT ![pcur.task].outcome = "raised"]
    /\ IF ConsumerAfter(exc) = "continues"
       THEN pcur' = Idle /\ UNCHANGED consumer
       ELSE pcur' = [pcur EXCEPT !.stage = "stopped"] /\ consumer' = "terminated"
    /\ UNCHANGED <<pqueue, shut, session, notPipeVars>>

\* shutdown(): self.task.cancel(), then await self.task
PShutdown ==
    /\ shut = "no"
    /\ shut' = "awaiting"
    /\ consumer' = IF consumer = "running" THEN "cancel_requested" ELSE consumer
    /\ UNCHANGED <<ptasks, pqueue, pcur, session, notPipeVars>>

\* The consumer task is resumed with CancelledError at the await it is
\* suspended at: queue.get() is outside every try of process_queue
PCancelled ==
    /\ consumer = "cancel_requested"
    /\ IF pcur.stage = "idle"
       THEN /\ consumer' = "terminated"
            /\ pcur' = [pcur EXCEPT !.stage = "stopped"]
            /\ UNCHANGED ptasks
       ELSE IF ConsumerAfter("CancelledError") = "terminates"
       THEN /\ consumer' = "terminated"
            /\ pcur' = [pcur EXCEPT !.stage = "stopped"]
            /\ ptasks' = [ptasks EXCEPT ![pcur.task].outcome = "cancelled"]
       ELSE /\ consumer' = "running"
            /\ pcur' = Idle
            /\ ptasks' = [ptasks EXCEPT ![pcur.task].outcome = "raised"]
    /\ UNCHANGED <<pqueue, shut, session, notPipeVars>>

\* shutdown(): await self.task is over (its CancelledError swallowed), then
\* await self.session.close()
PShutdownReturn ==
    /\ shut = "awaiting"
    /\ consumer = "terminated"
    /\ shut' = "returned"
    /\ session' = "closed"
    /\ UNCHANGED <<ptasks, pqueue, pcur, consumer, notPipeVars>>

NextPipeline ==
    \/ Len(ptasks) < MaxPipeTasks /\ PEnqueue
    \/ PDequeue
    \/ \E completions \in [1 .. NumCompletions -> RawTexts] : PCompletions(completions)
    \/ PCallbackReturn
    \/ \E exc \in Failures : PRaise(exc)
    \/ PShutdown
    \/ PCancelled
    \/ PShutdownReturn

----------------------------------------------------------------------------
(* LLMAgent: one completion call and its retry loop (SpecCall).             *)
(*                                                                          *)
(* send_completion_request returns one text, send_completion_request_with_n *)
(* a list of n texts: the result is a sequence of one or of n texts.  The   *)
(* caller is handle_message, awaited by the consumer loop.                  *)

\* for _ in range(10)
MaxAttempts == 10

\* The prompts a payload is built from
Prompts == {"p1", "p2"}

\* The two completion calls and the number of texts each returns
Variants == {"single", "with_n"}

ResultLen(variant) == IF variant = "single" THEN 1 ELSE NumCompletions

\* return "" / return [""] * n
EmptyResult(variant) == [i \in 1 .. ResultLen(variant) |-> ""]

\* The most choices a response holds here: one more than asked for
MaxChoices == NumCompletions + 1

\* choices = data.get("choices", []): the texts of a response's k choices
Choices(k) == [i \in 1 .. k |-> "x"]

\* (mutant) the results are returned as extracted
PadNever(results, n) == results

\* while len(results) < n: results.append("")
RECURSIVE Pad(_, _)
Pad(results, n) ==
    IF Len(results) < n THEN Pad(Append(results, ""), n) ELSE results

\* results[:n]
Slice(results, n) ==
    SubSeq(results, 1, IF Len(results) < n THEN Len(results) ELSE n)

\* The results extracted from a response with k choices.  With n: the texts
\* of the choices, padded and cut to n.  Single: the text of choices[0]
\* (choices[0] of no choice raises IndexError, answered by return "")
Extracted(variant, k) ==
    IF variant = "with_n"
    THEN Slice(Pad(Choices(k), ResultLen(variant)), ResultLen(variant))
    ELSE IF k = 0 THEN EmptyResult(variant) ELSE <<Choices(k)[1]>>

\* What an attempt can end with: a response of status 200 with choices, a
\* response of another status, a body with an error of code 429 or of
\* another code, an aiohttp.ClientError, another exception
Outcomes == {"ok", "status_not_200", "error_429", "error_other", "ClientError", "Exception"}

\* The payload posted at an attempt: the one built before the loop
Post(payload, iteration) == payload

\* The retry loop's except clauses in their order, for an exception raised
\* inside the try
retry_loop_except(exc) ==
    IF Catches("ClientError", exc) THEN "sleep_5"
    ELSE IF Catches("CancelledError", exc) THEN "raise"
    ELSE IF Catches("Exception", exc) THEN "return_empty"
    ELSE "raise"

\* (mutant) a response of another status is retried like a transport failure
AttemptEndRetryStatus(outcome) ==
    CASE outcome = "ok"             -> "return_results"
      [] outcome = "status_not_200" -> "sleep_5"
      [] outcome = "error_429"      -> "sleep_1"
      [] outcome = "error_other"    -> "return_empty"
      [] OTHER                      -> retry_loop_except(outcome)

\* One iteration of the loop, from the response or the exception of its post
AttemptEnd(outcome) ==
    CASE outcome = "ok"             -> "return_results"
      [] outcome = "status_not_200" -> "return_empty"
      [] outcome = "error_429"      -> "sleep_1"
      [] outcome = "error_other"    -> "return_empty"
      [] OTHER                      -> retry_loop_except(outcome)

\* (mutant) every pause lasts 5 seconds
PauseOfAlwaysFive(end) == IF end \in {"sleep_1", "sleep_5"} THEN 5 ELSE 0

\* asyncio.sleep(1), asyncio.sleep(5): the seconds an iteration pauses
PauseOf(end) ==
    CASE end = "sleep_1" -> 1
      [] end = "sleep_5" -> 5
      [] OTHER           -> 0

\* (mutant) the loop goes on as long as attempts fail
MoreAttemptsForever(iteration) == TRUE

\* range(10): is there an iteration after this one
MoreAttempts(iteration) == iteration < MaxAttempts

\* (mutant) CancelledError is answered like a ClientError
OnCancelRetry(phase, pause) == "sleep_5"

\* CancelledError raised at the await the call is suspended at: the limiter,
\* the post and sleep(1) are inside the try, sleep(5) inside an except clause
OnCancel(phase, pause) ==
    IF phase = "sleep" /\ pause = 5
    THEN "raise"
    ELSE retry_loop_except("CancelledError")

NoCall ==
    [ phase |-> "unstarted", variant |-> "single",
      payload |-> [prompt |-> None, n |-> 0], iteration |-> 0,
      sent |-> << >>, trail |-> << >>, pause |-> 0, result |-> << >>,
      caller |-> "awaiting", cancelled_after |-> -1 ]

InitCall == call = NoCall

\* The call starts: the payload is built, the loop entered
CStart(variant, prompt) ==
    /\ call.phase = "unstarted"
    /\ call' = [call EXCEPT !.phase = "limiter", !.variant = variant,
                            !.payload = [prompt |-> prompt, n |-> ResultLen(variant)],
                            !.iteration = 1]
    /\ UNCHANGED notCallVars

\* async with self.rate_limit: self.session.post(endpoint, json=payload)
CPost ==
    /\ call.phase = "limiter"
    /\ call' = [call EXCEPT !.phase = "http",
                            !.sent = Append(@, Post(call.payload, call.iteration))]
    /\ UNCHANGED notCallVars

\* The attempt ends with a response of k choices or with an exception
CAttemptEnd(outcome, k) ==
    LET end == AttemptEnd(outcome)
        entry == [outcome |-> outcome, pause |-> PauseOf(end)]
    IN  /\ call.phase = "http"
        /\ outcome = "ok" \/ k = 0
        /\ call' =
             CASE end = "return_results" ->
                    [call EXCEPT !.phase = "returned", !.trail = Append(@, entry),
                                 !.result = Extracted(call.variant, k)]
               [] end = "return_empty" ->
                    [call EXCEPT !.phase = "returned", !.trail = Append(@, entry),
                                 !.result = EmptyResult(call.variant)]
               [] end = "raise" ->
                    [call EXCEPT !.phase = "raised", !.trail = Append(@, entry)]
               [] OTHER ->
                    [call EXCEPT !.phase = "sleep", !.trail = Append(@, entry),
                                 !.pause = PauseOf(end)]
        /\ UNCHANGED notCallVars

\* The pause is over: the next iteration, or the return after the last one
CWake ==
    /\ call.phase = "sleep"
    /\ call' = IF MoreAttempts(call.iteration)
               THEN [call EXCEPT !.phase = "limiter", !.iteration = @ + 1, !.pause = 0]
               ELSE [call EXCEPT !.phase = "returned", !.pause = 0,
                                 !.result = EmptyResult(call.variant)]
    /\ UNCHANGED notCallVars

\* The consumer task is cancelled while the call is suspended
CCancel ==
    LET end == OnCancel(call.phase, call.pause)
    IN  /\ call.phase \in {"limiter", "http", "sleep"}
        /\ call.cancelled_after = -1
        /\ call' =
             CASE end = "raise" ->
                    [call EXCEPT !.phase = "raised", !.pause = 0,
                                 !.cancelled_after = Len(call.sent),
                                 !.caller = IF ConsumerAfter("CancelledError") = "terminates"
                                            THEN "terminated" ELSE "idle"]
               [] end = "return_empty" ->
                    [call EXCEPT !.phase = "returned", !.pause = 0,
                                 !.cancelled_after = Len(call.sent),
                                 !.result = EmptyResult(call.variant)]
               [] OTHER ->
                    [call EXCEPT !.phase = "sleep", !.pause = PauseOf(end),
                                 !.cancelled_after = Len(call.sent)]
        /\ UNCHANGED notCallVars

\* handle_message has the completions: it processes them and invokes the
\* callback
CHandle ==
    /\ call.phase = "returned"
    /\ call.caller = "awaiting"
    /\ call' = [call EXCEPT !.caller = "callbacks"]
    /\ UNCHANGED notCallVars

NextCall ==
    \/ \E variant \in Variants, prompt \in Prompts : CStart(variant, prompt)
    \/ CPost
    \/ \E outcome \in Outcomes, k \in 0 .. MaxChoices : CAttemptEnd(outcome, k)
    \/ CWake
    \/ CCancel
    \/ CHandle

----------------------------------------------------------------------------
(* handle_message's fan-out of send_completion_request and the limiter      *)
(* (SpecFanout): two LLMAgent instances, each processing one task at a time *)
(* for a model without the n parameter.                                     *)
(*                                                                          *)
(* range(10) is not counted here: after a pause the loop either goes on or  *)
(* is exhausted (SpecCall counts the iterations of one call).               *)

\* The LLMAgent instances of the process
FanAgents == {"agent1", "agent2"}

\* asyncio.Semaphore(5)
LimiterCapacity == 5

\* self.rate_limit = asyncio.Semaphore(5) in __init__: the limiter of an
\* instance
NewLimiter == LimiterCapacity

\* for _ in range(3): the calls of one task
FanCalls == 1 .. NumCompletions

NoFanCalls == [i \in FanCalls |-> [phase |-> "none", result |-> None]]

\* (mutant) leaving the block does not give the permit back
ExitLeaks(value) == value

\* async with self.rate_limit, __aenter__ and __aexit__
Enter(value) == value - 1

Exit(value) == value + 1

\* (mutant) the permit is given back before the 1-second pause
HoldsPermitOnlyPost(phase) == phase = "http"

\* The awaits of a call that are inside async with self.rate_limit: the post
\* and asyncio.sleep(1); asyncio.sleep(5) is in the except clause, outside
HoldsPermit(phase) == phase \in {"http", "sleep_1"}

\* (mutant) gather returns with the first call that returns
GatheredFirst(calls) == \E i \in DOMAIN calls : calls[i].phase = "returned"

\* completions = await asyncio.gather(*completion_tasks) returns once every
\* call has returned
Gathered(calls) == \A i \in DOMAIN calls : calls[i].phase = "returned"

\* The completions gather returns, in the order of the calls
Completions(calls) == [i \in DOMAIN calls |-> calls[i].result]

InitFanout ==
    /\ fcalls = [a \in FanAgents |-> NoFanCalls]
    /\ permits = [a \in FanAgents |-> NewLimiter]
    /\ fstage = [a \in FanAgents |-> [stage |-> "idle", cbs |-> 0]]

\* handle_message, lines 86-90: the three calls are created and gathered
FGather(a) ==
    /\ fstage[a].stage = "idle"
    /\ fstage' = [fstage EXCEPT ![a].stage = "gather"]
    /\ fcalls' = [fcalls EXCEPT ![a] =
                     [i \in FanCalls |-> [phase |-> "limiter", result |-> None]]]
    /\ UNCHANGED <<permits, notFanVars>>

\* async with self.rate_limit: async with self.session.post(...)
FPost(a, i) ==
    /\ fstage[a].stage = "gather"
    /\ fcalls[a][i].phase = "limiter"
    /\ permits[a] > 0
    /\ permits' = [permits EXCEPT ![a] = Enter(@)]
    /\ fcalls' = [fcalls EXCEPT ![a][i].phase = "http"]
    /\ UNCHANGED <<fstage, notFanVars>>

\* The attempt ends with a response of k choices or with an exception
FAttemptEnd(a, i, outcome, k) ==
    LET end == AttemptEnd(outcome)
        phase == CASE end = "return_results" -> "returned"
                   [] end = "return_empty"   -> "returned"
                   [] OTHER                  -> end
    IN  /\ fstage[a].stage = "gather"
        /\ fcalls[a][i].phase = "http"
        /\ outcome = "ok" \/ k = 0
        /\ fcalls' = [fcalls EXCEPT ![a][i] =
                         [ phase  |-> phase,
                           result |-> CASE end = "return_results" -> Extracted("single", k)[1]
                                        [] end = "return_empty"   -> EmptyResult("single")[1]
                                        [] OTHER                  -> None ]]
        /\ permits' = [permits EXCEPT ![a] = IF HoldsPermit(phase) THEN @ ELSE Exit(@)]
        /\ UNCHANGED <<fstage, notFanVars>>

\* The pause is over: continue leaves the limiter's block after sleep(1);
\* the next iteration, or return "" after the last one
FWake(a, i, more) ==
    /\ fstage[a].stage = "gather"
    /\ fcalls[a][i].phase \in {"sleep_1", "sleep_5"}
    /\ fcalls' = [fcalls EXCEPT ![a][i] =
                     IF more
                     THEN [phase |-> "limiter", result |-> None]
                     ELSE [phase |-> "returned", result |-> EmptyResult("single")[1]]]
    /\ permits' = [permits EXCEPT ![a] =
                      IF HoldsPermit(fcalls[a][i].phase) THEN Exit(@) ELSE @]
    /\ UNCHANGED <<fstage, notFanVars>>

\* shutdown() cancels the consumer task at its await of gather, and gather
\* cancels the calls that are not done
FCancel(a) ==
    /\ fstage[a].stage = "gather"
    /\ fstage' = [fstage EXCEPT ![a].stage = "cancelled"]
    /\ UNCHANGED <<fcalls, permits, notFanVars>>

\* CancelledError is raised in a cancelled call at the await it is suspended
\* at (a call that has not run yet never runs) and leaves the call
FCancelled(a, i) ==
    /\ fstage[a].stage = "cancelled"
    /\ fcalls[a][i].phase \in {"limiter", "http", "sleep_1", "sleep_5"}
    /\ fcalls' = [fcalls EXCEPT ![a][i].phase = "cancelled"]
    /\ permits' = [permits EXCEPT ![a] =
                      IF HoldsPermit(fcalls[a][i].phase) THEN Exit(@) ELSE @]
    /\ UNCHANGED <<fstage, notFanVars>>

\* gather returns the completions; lines 94-113: they are processed and
\* filtered, and the first callback is invoked
FGathered(a) ==
    /\ fstage[a].stage = "gather"
    /\ Gathered(fcalls[a])
    /\ fstage' = [fstage EXCEPT ![a] = [stage |-> "callbacks", cbs |-> 1]]
    /\ UNCHANGED <<fcalls, permits, notFanVars>>

\* The callback returns and the next one is invoked
FCallback(a) ==
    /\ fstage[a].stage = "callbacks"
    /\ fstage[a].cbs < Len(Pages(Completions(fcalls[a])))
    /\ fstage' = [fstage EXCEPT ![a].cbs = @ + 1]
    /\ UNCHANGED <<fcalls, permits, notFanVars>>

\* The last callback returns: handle_message returns and the consumer waits
\* for its next task
FReturn(a) ==
    /\ fstage[a].stage = "callbacks"
    /\ fstage[a].cbs = Len(Pages(Completions(fcalls[a])))
    /\ fstage' = [fstage EXCEPT ![a] = [stage |-> "idle", cbs |-> 0]]
    /\ fcalls' = [fcalls EXCEPT ![a] = NoFanCalls]
    /\ UNCHANGED <<permits, notFanVars>>

NextFanout ==
    \/ \E a \in FanAgents : FGather(a)
    \/ \E a \in FanAgents, i \in FanCalls : FPost(a, i)
    \/ \E a \in FanAgents, i \in FanCalls, outcome \in Outcomes, k \in 0 .. 1 :
          FAttemptEnd(a, i, outcome, k)
    \/ \E a \in FanAgents, i \in FanCalls, more \in BOOLEAN : FWake(a, i, more)
    \/ \E a \in FanAgents : FCancel(a)
    \/ \E a \in FanAgents, i \in FanCalls : FCancelled(a, i)
    \/ \E a \in FanAgents : FGathered(a)
    \/ \E a \in FanAgents : FCallback(a)
    \/ \E a \in FanAgents : FReturn(a)

----------------------------------------------------------------------------
(* LLMAgent.process_response in full mode (SpecText).                       *)
(*                                                                          *)
(* A text is the sequence of its pieces: words, blanks, newlines, whole     *)
(* termination tags and whole oblique tags; "" is the empty sequence.       *)

\* termination_tags, in the order of the list
termination_tags == <<"</stop>", "</xml>", "<|end|>", "<|endoftext|>">>

\* The pieces a raw completion is made of
Pieces == {"a", "b", " ", "\n", "[oblique]", "[oblique:u]"}
              \cup {termination_tags[i] : i \in DOMAIN termination_tags}

\* The raw completions of up to MaxTextLen pieces
RawCompletions == UNION {[1 .. n -> Pieces] : n \in 0 .. MaxTextLen}

\* tag in text
Contains(text, tag) == \E i \in DOMAIN text : text[i] = tag

\* text.find(tag), for a tag the text contains (1-based)
Find(text, tag) == CHOOSE i \in DOMAIN text :
                      text[i] = tag /\ \A j \in 1 .. (i - 1) : text[j] # tag

\* text.replace(piece, "")
Remove(text, piece) == SelectSeq(text, LAMBDA t : t # piece)

\* Lines 625-630: the text is cut at the first occurrence of the first tag
\* of the list that it contains
CutAtTag(text) ==
    IF \E k \in DOMAIN termination_tags : Contains(text, termination_tags[k])
    THEN LET k == CHOOSE k \in DOMAIN termination_tags :
                      /\ Contains(text, termination_tags[k])
                      /\ \A l \in 1 .. (k - 1) : ~Contains(text, termination_tags[l])
         IN  SubSeq(text, 1, Find(text, termination_tags[k]) - 1)
    ELSE text

\* Lines 633-634: every tag is replaced by "", one tag after the other
RECURSIVE RemoveTags(_, _)
RemoveTags(text, k) ==
    IF k > Len(termination_tags) THEN text
    ELSE RemoveTags(Remove(text, termination_tags[k]), k + 1)

\* re.sub(r'[ \t]+', ' ', text)
RECURSIVE CollapseBlanks(_)
CollapseBlanks(text) ==
    IF Len(text) < 2 THEN text
    ELSE IF text[1] = " " /\ text[2] = " "
         THEN CollapseBlanks(Tail(text))
         ELSE <<text[1]>> \o CollapseBlanks(Tail(text))

\* re.sub(r' +\n', '\n', text)
RECURSIVE DropBlanksBeforeNewline(_)
DropBlanksBeforeNewline(text) ==
    IF text = << >> THEN << >>
    ELSE LET rest == DropBlanksBeforeNewline(Tail(text))
         IN  IF text[1] = " " /\ rest # << >> /\ rest[1] = "\n"
             THEN rest
             ELSE <<text[1]>> \o rest

\* re.sub(r'\n +', '\n', text)
RECURSIVE DropBlanksAfterNewline(_)
DropBlanksAfterNewline(text) ==
    IF Len(text) < 2 THEN text
    ELSE IF text[1] = "\n" /\ text[2] = " "
         THEN DropBlanksAfterNewline(<<"\n">> \o Tail(Tail(text)))
         ELSE <<text[1]>> \o DropBlanksAfterNewline(Tail(text))

Whitespace == {" ", "\n"}

\* text.lstrip(), text.rstrip(), text.strip()
RECURSIVE LStrip(_)
LStrip(text) ==
    IF text # << >> /\ text[1] \in Whitespace THEN LStrip(Tail(text)) ELSE text

RECURSIVE RStrip(_)
RStrip(text) ==
    IF text # << >> /\ text[Len(text)] \in Whitespace
    THEN RStrip(SubSeq(text, 1, Len(text) - 1))
    ELSE text

StripText(text) == RStrip(LStrip(text))

\* _clean_oblique_tags
clean_oblique_tags(text) ==
    StripText(DropBlanksAfterNewline(DropBlanksBeforeNewline(CollapseBlanks(
        Remove(Remove(text, "[oblique:u]"), "[oblique]")))))

\* process_response with data['mode'] other than 'self'
process_response_full(response_text) ==
    IF response_text = << >>
    THEN << "Error: No response from LLM." >>
    ELSE StripText(clean_oblique_tags(RemoveTags(CutAtTag(response_text), 1)))

InitText == txt = [raw |-> << >>, out |-> << >>, again |-> << >>]

\* replacement_text = self.process_response(response_text, data), and the
\* same call made on its result
ProcessResponse(response_text) ==
    /\ txt' = [ raw   |-> response_text,
                out   |-> process_response_full(response_text),
                again |-> process_response_full(process_response_full(response_text)) ]
    /\ UNCHANGED notTextVars

NextText == \E response_text \in RawCompletions : ProcessResponse(response_text)

----------------------------------------------------------------------------
(* LLMAgent.format_messages and the prompt of handle_message (SpecPrompt). *)
(*                                                                          *)
(* A prompt is the sequence of its pieces.  The display names carry no      *)
(* bracket and the contents no oblique tag, mention or HTML, so that        *)
(* _clean_username and the content clean-up leave them as they are.         *)

\* msg.author.display_name
Authors == {"alice", "bob"}

\* msg.content: plain texts, the clear-history text, a text that starts with
\* "." and a progress text of the bot
Contents == {"hi", "yo", "oblique_clear", ".x", "Regenerating..."}

\* msg.created_at
Timestamps == 1 .. MaxHistory

\* The name of the user the completion is for
TargetName == "carol"

\* data.get('seed')
Seeds == {None, "so"}

\* self.model_config.get('type')
ModelTypes == {"base", "instruct"}

\* The place list.sort gives m among the sorted messages: after those that
\* are not newer (the sort is stable)
InsertByCreatedAt(sorted, m) ==
    LET k == Cardinality({i \in DOMAIN sorted : sorted[i].created_at <= m.created_at})
    IN  SubSeq(sorted, 1, k) \o <<m>> \o SubSeq(sorted, k + 1, Len(sorted))

\* all_messages.sort(key=lambda x: x[0].created_at)
RECURSIVE SortByCreatedAt(_)
SortByCreatedAt(all_messages) ==
    IF all_messages = << >> THEN << >>
    ELSE InsertByCreatedAt(SortByCreatedAt(SubSeq(all_messages, 1, Len(all_messages) - 1)),
                           all_messages[Len(all_messages)])

\* Line 248: clean_content.startswith(".") or one of the progress texts
Skipped(clean_content) ==
    clean_content \in {".x", "Oblique: Generating...", "Regenerating..."}

\* Lines 252-257: one message in the format of the model type
RenderEntry(type, msg) ==
    IF type = "instruct"
    THEN <<msg.author, ":", " ", msg.content, "\n">>
    ELSE <<"<", msg.author, ">", " ", msg.content, "\n">>

\* for msg, source in all_messages (lines 212-257): break at the
\* clear-history text, continue at a skipped one, else append the entry
RECURSIVE FormatLoop(_, _)
FormatLoop(type, msgs) ==
    IF msgs = << >> THEN << >>
    ELSE IF Head(msgs).content = "oblique_clear" THEN << >>
    ELSE IF Skipped(Head(msgs).content) THEN FormatLoop(type, Tail(msgs))
    ELSE RenderEntry(type, Head(msgs)) \o FormatLoop(type, Tail(msgs))

\* format_messages: "".join(formatted)
format_messages(type, all_messages) == FormatLoop(type, SortByCreatedAt(all_messages))

\* handle_message, lines 66-79: what is added to the formatted messages
PromptEnd(type, name, seed, suppress_name) ==
    IF type = "instruct"
    THEN IF seed # None THEN <<name, ":", " ", seed>> ELSE <<name, ":">>
    ELSE IF seed # None THEN <<"<", name, ">", " ", seed, "\n">>
    ELSE IF ~suppress_name THEN <<"<", name, ">", "\n">>
    ELSE << >>

NoPrompt ==
    [built |-> FALSE, type |-> "base", seed |-> None, suppress_name |-> FALSE,
     text |-> << >>]

InitPrompt ==
    /\ fetched = << >>
    /\ the_prompt = NoPrompt

\* async for msg in channel.history(...): all_messages.append(...), in the
\* order the channels yield the messages
Fetch(author, content, created_at) ==
    /\ ~the_prompt.built
    /\ Len(fetched) < MaxHistory
    /\ \A i \in DOMAIN fetched : fetched[i].created_at # created_at
    /\ fetched' = Append(fetched, [author |-> author, content |-> content,
                                   created_at |-> created_at])
    /\ UNCHANGED <<the_prompt, notPromptVars>>

\* handle_message up to the completion request: the prompt
BuildPrompt(type, seed, suppress_name) ==
    /\ ~the_prompt.built
    /\ the_prompt' = [ built |-> TRUE, type |-> type, seed |-> seed,
                   suppress_name |-> suppress_name,
                   text |-> format_messages(type, fetched)
                              \o PromptEnd(type, TargetName, seed, suppress_name) ]
    /\ UNCHANGED <<fetched, notPromptVars>>

NextPrompt ==
    \/ \E author \in Authors, content \in Contents, created_at \in Timestamps :
          Fetch(author, content, created_at)
    \/ \E type \in ModelTypes, seed \in Seeds, suppress_name \in BOOLEAN :
          BuildPrompt(type, seed, suppress_name)

----------------------------------------------------------------------------
(* LLMAgent.process_response in self mode for a base model (SpecSelf).      *)
(*                                                                          *)
(* A speaker tag '<name>' is one piece; data['username'] carries no         *)
(* '[oblique]', so that the replace of line 649 leaves it as it is.         *)

\* The speaker tags a completion is made of, and the name inside each
SpeakerTags == {"<carol>", "<CAROL>", "<alice>"}

\* line_stripped[1:end_tag_pos]
TagContent(tag) ==
    CASE tag = "<carol>" -> "carol"
      [] tag = "<CAROL>" -> "CAROL"
      [] tag = "<alice>" -> "alice"

\* str.lower()
Lower(name) == IF name = "CAROL" THEN "carol" ELSE name

\* The pieces a raw completion is made of
SelfPieces == SpeakerTags \cup {"w", " ", "\n"}

\* text.split('\n')
RECURSIVE SplitLines(_)
SplitLines(text) ==
    IF Contains(text, "\n")
    THEN <<SubSeq(text, 1, Find(text, "\n") - 1)>>
            \o SplitLines(SubSeq(text, Find(text, "\n") + 1, Len(text)))
    ELSE <<text>>

\* '\n'.join(lines)
RECURSIVE JoinLines(_)
JoinLines(lines) ==
    IF lines = << >> THEN << >>
    ELSE IF Len(lines) = 1 THEN lines[1]
    ELSE lines[1] \o <<"\n">> \o JoinLines(Tail(lines))

\* line_stripped.startswith('<') and '>' in line_stripped
StartsSpeaker(line_stripped) ==
    line_stripped # << >> /\ line_stripped[1] \in SpeakerTags

\* (mutant) the tag is compared as written
SameSpeakerExact(tag_content, username) == tag_content = username

\* tag_content.lower() == username.lower()
SameSpeaker(tag_content, username) == Lower(tag_content) = Lower(username)

\* The loop of _extract_user_content_xml_format over the lines left, with
\* in_user_section and user_content so far
RECURSIVE ExtractLoop(_, _, _, _)
ExtractLoop(lines, username, in_user_section, user_content) ==
    IF lines = << >> THEN user_content
    ELSE LET line_stripped == StripText(Head(lines))
             content_after_tag == StripText(Tail(line_stripped))
         IN  IF line_stripped = << >>
             THEN ExtractLoop(Tail(lines), username, in_user_section,
                              IF in_user_section THEN Append(user_content, << >>)
                                                 ELSE user_content)
             ELSE IF StartsSpeaker(line_stripped)
             THEN IF SameSpeaker(TagContent(line_stripped[1]), username)
                  THEN ExtractLoop(Tail(lines), username, TRUE,
                                   IF content_after_tag # << >>
                                   THEN Append(user_content, content_after_tag)
                                   ELSE user_content)
                  ELSE IF in_user_section
                       THEN user_content
                       ELSE ExtractLoop(Tail(lines), username, FALSE, user_content)
             ELSE ExtractLoop(Tail(lines), username, in_user_section,
                              IF in_user_section THEN Append(user_content, line_stripped)
                                                 ELSE user_content)

\* _extract_user_content_xml_format
extract_user_content_xml_format(text, username) ==
    JoinLines(ExtractLoop(SplitLines(text), username, FALSE, << >>))

\* process_response with data['mode'] = 'self' and a model whose type is
\* not 'instruct'
process_response_self(response_text, username) ==
    IF response_text = << >>
    THEN << "Error: No response from LLM." >>
    ELSE LET processed_text == clean_oblique_tags(RemoveTags(CutAtTag(response_text), 1))
             result == extract_user_content_xml_format(processed_text, username)
         IN  IF StripText(result) # << >> THEN result ELSE StripText(processed_text)

InitSelf == stxt = [raw |-> << >>, out |-> << >>]

\* replacement_text = self.process_response(response_text, data), for a raw
\* completion one piece longer than the last
ProcessSelf(piece) ==
    /\ Len(stxt.raw) < MaxSelfLen
    /\ stxt' = [ raw |-> Append(stxt.raw, piece),
                 out |-> process_response_self(Append(stxt.raw, piece), TargetName) ]
    /\ UNCHANGED notSelfVars

NextSelf == \E piece \in SelfPieces : ProcessSelf(piece)

----------------------------------------------------------------------------
(* The buttons of one registered slash session and the callbacks that       *)
(* render it (SpecUI).  Its context is gc; each handler is taken up to the  *)
(* edit of the message it issues.                                           *)

\* The texts of the session: a candidate, the no-valid-response page and
\* what the trim button makes of them
UITexts == {"x", "", NoValidText, "No valid response generated."}

\* A text as the sequence of its pieces: sentences, periods, blanks
PiecesOf(text) ==
    CASE text = "x" -> <<"x">>
      [] text = ""  -> << >>
      [] text = NoValidText ->
            <<"No valid response generated", ".", " ", "Please try again", ".">>
      [] text = "No valid response generated." ->
            <<"No valid response generated", ".">>

TextOf(pieces) == CHOOSE text \in UITexts : PiecesOf(text) = pieces

\* content.rfind('.', 0, end): the last period before place end, 0 for none
RFindPeriod(content, end) ==
    IF \E i \in 1 .. (end - 1) : content[i] = "."
    THEN CHOOSE i \in 1 .. (end - 1) :
            content[i] = "." /\ \A j \in (i + 1) .. (end - 1) : content[j] # "."
    ELSE 0

\* trim_message, on the pieces of the content
trim_pieces(content) ==
    LET lines == SplitLines(content)
        last_line == lines[Len(lines)]
        but_last == SubSeq(lines, 1, Len(lines) - 1)
        stripped == StripText(last_line)
    IN  IF ~Contains(last_line, ".")
        THEN JoinLines(but_last)
        ELSE IF stripped # << >> /\ stripped[Len(stripped)] = "."
        THEN LET second_last_period ==
                    RFindPeriod(content, RFindPeriod(content, Len(content) + 1))
             IN  IF second_last_period # 0
                 THEN SubSeq(content, 1, second_last_period)
                 ELSE JoinLines(lines)
        ELSE JoinLines(Append(but_last,
                 SubSeq(last_line, 1, RFindPeriod(last_line, Len(last_line) + 1))))

\* trim_message
trim_message(content) == TextOf(trim_pieces(PiecesOf(content)))

\* (mutant) Next is disabled one past the tail
create_generation_viewPastTail(context) ==
    [ kind |-> "generation",
      prev_disabled |-> context.current_index = 0,
      next_disabled |-> context.current_index = Len(context.history) ]

\* create_generation_view: the disabled flags of Prev and Next
create_generation_view(context) ==
    [ kind |-> "generation",
      prev_disabled |-> context.current_index = 0,
      next_disabled |-> context.current_index = Len(context.history) - 1 ]

\* create_cancel_view: no Prev and no Next button
create_cancel_view ==
    [kind |-> "cancel", prev_disabled |-> TRUE, next_disabled |-> TRUE]

\* (mutant) the no-valid-response page is rendered but not appended
llm_callbackSkipsNotice(context, replacement_text) ==
    IF replacement_text = NoValidText
    THEN context
    ELSE add_generation(context, replacement_text)

\* llm_callback, line 524: await context.add_generation(replacement_text)
llm_callback(context, replacement_text) == add_generation(context, replacement_text)

\* The completions of a task of the session: empty ones and the candidate
UICompletions == [1 .. NumCompletions -> {"", "x"}]

InitUI ==
    ui = [ content |-> "Oblique: Generating...", view |-> create_cancel_view,
           last |-> "none", original |-> None, adds |-> 0, notices |-> 0, trims |-> 0 ]

\* llm_callback for one page of a task: the text is appended and the message
\* edited to it, with the view of the context
UICallback(replacement_text) ==
    /\ ui.adds < MaxUIAdds
    /\ replacement_text = NoValidText => ui.notices < MaxNotices
    /\ gc' = llm_callback(gc, replacement_text)
    /\ ui' = [ui EXCEPT !.content = replacement_text,
                        !.view = IF Len(gc'.history) > 0
                                 THEN create_generation_view(gc')
                                 ELSE create_cancel_view,
                        !.last = "callback",
                        !.original = None,
                        !.adds = @ + 1,
                        !.notices = IF replacement_text = NoValidText THEN @ + 1 ELSE @]
    /\ UNCHANGED notViewVars

\* on_interaction, "prev" or "next": navigate; the message is edited only
\* when navigate returns a content
UINavigate(custom_id) ==
    LET new_index == IF custom_id = "prev" THEN gc.current_index - 1
                                           ELSE gc.current_index + 1
        nav == navigate(gc, new_index)
    IN  /\ ui.view.kind = "generation"
        /\ gc' = nav.ctx
        /\ ui' = IF nav.ret = None
                 THEN [ui EXCEPT !.last = custom_id, !.original = None]
                 ELSE [ui EXCEPT !.last = custom_id, !.original = None,
                                 !.content = nav.ret,
                                 !.view = create_generation_view(gc')]
        /\ UNCHANGED notViewVars

\* on_interaction, "trim": the trimmed current content is appended and the
\* message edited to it
UITrim ==
    LET new_content == trim_message(current_content(gc))
    IN  /\ ui.view.kind = "generation"
        /\ ui.adds < MaxUIAdds
        /\ ui.trims < MaxTrims
        /\ gc' = add_generation(gc, new_content)
        /\ ui' = [ui EXCEPT !.content = new_content,
                            !.view = create_generation_view(gc'),
                            !.last = "trim",
                            !.original = current_content(gc),
                            !.adds = @ + 1,
                            !.trims = @ + 1]
        /\ UNCHANGED notViewVars

NextUI ==
    \/ \E completions \in UICompletions, i \in 1 .. NumCompletions :
          /\ i <= Len(Pages(completions))
          /\ UICallback(Pages(completions)[i].text)
    \/ \E custom_id \in {"prev", "next"} : UINavigate(custom_id)
    \/ UITrim

----------------------------------------------------------------------------
(* Specifications *)

Init ==
    /\ InitCtx /\ InitMgr /\ InitHandler /\ InitPipeline /\ InitCall
    /\ InitFanout /\ InitText
    /\ InitPrompt /\ InitSelf /\ InitUI

SpecCtx == Init /\ [][NextCtx]_vars

SpecMgr == Init /\ [][NextMgr]_vars

SpecHandler == Init /\ [][NextHandler]_vars

SpecAgent == Init /\ [][NextAgent]_vars

SpecPipeline == Init /\ [][NextPipeline]_vars

SpecCall == Init /\ [][NextCall]_vars

SpecFanout == Init /\ [][NextFanout]_vars

SpecText == Init /\ [][NextText]_vars

SpecPrompt == Init /\ [][NextPrompt]_vars

SpecSelf == Init /\ [][NextSelf]_vars

SpecUI == Init /\ [][NextUI]_vars

\* The limiter has a free permit, the HTTP client answers or fails within its
\* timeout, a sleep ends
SpecCallFair ==
    /\ SpecCall
    /\ WF_vars(CPost)
    /\ WF_vars(\E outcome \in Outcomes, k \in 0 .. MaxChoices : CAttemptEnd(outcome, k))
    /\ WF_vars(CWake)

\* The event loop resumes a consumer that can run: the queue hands over a
\* waiting task, the completion calls end (C16) and the callback returns
SpecPipelineFair ==
    /\ SpecPipeline
    /\ WF_vars(PDequeue)
    /\ WF_vars(\E completions \in [1 .. NumCompletions -> RawTexts] : PCompletions(completions))
    /\ WF_vars(PCallbackReturn)
    /\ WF_vars(PCancelled)
    /\ WF_vars(PShutdownReturn)

----------------------------------------------------------------------------
(* Claims about LLMAgent (SpecAgent) and MessageHandler (SpecHandler) *)

\* The tasks of agent k that are inside handle_message
Processing(k) == {t \in DOMAIN tasks : tasks[t].key = k /\ run[t].stage \in InFlight}

\* C1: within one LLMAgent at most one queued task is being processed at any
\* time: no task is dequeued before the pipeline of the current one (its
\* completions, response processing and every callback) has returned.
C1_OneTaskInFlight ==
    \A k \in DOMAIN agents : Cardinality(Processing(k)) <= 1

\* C1 witness: a task is suspended in its second callback while a later task
\* of the same agent waits in the queue.
C1_Witness ==
    \E t1, t2 \in DOMAIN tasks :
        /\ tasks[t1].key = tasks[t2].key
        /\ run[t1].stage = "rendering"
        /\ run[t1].next = 2
        /\ run[t2].stage = "queued"
        /\ queue[tasks[t2].key] = <<t2>>

\* A callback was invoked for task t
CallbackBegun(t) ==
    \/ run[t].stage \in {"rendering", "done"}
    \/ run[t].stage = "callbacks" /\ run[t].next > 1

\* C2: for two tasks enqueued on the same agent, every callback invocation of
\* the first has completed (its pipeline has returned) before the first
\* callback invocation of the second begins.
C2_CallbacksInEnqueueOrder ==
    \A t1, t2 \in DOMAIN tasks :
        (t1 < t2 /\ tasks[t1].key = tasks[t2].key /\ CallbackBegun(t2))
            => run[t1].stage = "done"

\* C2 witness: the second of two tasks of one agent is inside a callback after
\* the first, whose callbacks appended to its session's history, is done.
C2_Witness ==
    \E t1, t2 \in DOMAIN tasks :
        /\ t1 < t2
        /\ tasks[t1].key = tasks[t2].key
        /\ run[t1].stage = "done"
        /\ run[t2].stage = "rendering"
        /\ \E ref \in DOMAIN heap :
                /\ heap[ref].message_id = tasks[t1].message_id
                /\ Len(heap[ref].history) > 1

\* C3: the appends made to one context's history by the callbacks of two
\* generation tasks of the session's owner never interleave: all appends of
\* one task precede all appends of the other.
C3_AppendsNeverInterleave ==
    \A ref \in DOMAIN appends :
        \A i, j, l \in DOMAIN appends[ref] :
            ~ ( /\ i < j /\ j < l
                /\ appends[ref][i] = appends[ref][l]
                /\ appends[ref][j] # appends[ref][i]
                /\ tasks[appends[ref][i]].user_id = heap[ref].owner_id
                /\ tasks[appends[ref][j]].user_id = heap[ref].owner_id )

\* C4: the registry holds at most one LLMAgent per (owner, model) pair.
C4_OneAgentPerOwnerModel ==
    \A k1, k2 \in DOMAIN agents :
        (agents[k1].user_id = agents[k2].user_id /\ agents[k1].model = agents[k2].model)
            => k1 = k2

----------------------------------------------------------------------------
(* Claims about GenerationContext (SpecCtx) *)

\* The last `maxlen` items of s (all of s when it is shorter)
MostRecent(s) ==
    IF Len(s) <= maxlen THEN s ELSE SubSeq(s, Len(s) - maxlen + 1, Len(s))

\* C5: after any sequence of add_generation calls the history holds at most
\* 10 entries, and once more than 10 were added it holds exactly the 10 most
\* recently added ones in insertion order (the oldest evicted first).
C5_HistoryIsTenMostRecent ==
    /\ Len(gc.history) <= maxlen
    /\ gc.history = MostRecent(added)

\* C5 witness: an 11th entry was added and evicted a first entry that
\* differs from the entry now at the head.
C5_Witness ==
    /\ Len(added) > maxlen
    /\ added[1] # added[2]
    /\ gc.history[1] = added[Len(added) - maxlen + 1]

\* C6: whenever the history is non-empty, 0 <= current_index < len(history),
\* under every interleaving of add_generation and navigate calls.
C6_IndexInRange ==
    gc.history # << >> =>
        (0 <= gc.current_index /\ gc.current_index < Len(gc.history))

\* C6 witness: after an append that evicted the oldest entry, a navigate
\* call was refused and the index stays inside the full history.
C6_Witness ==
    /\ Len(added) > maxlen
    /\ last.op = "navigate"
    /\ last.ret = None
    /\ last.arg = maxlen
    /\ gc.current_index = maxlen - 1

\* C7: right after add_generation(text) current_index is len(history) - 1 and
\* current_content is text (also after an eviction); current_content is None
\* exactly when the history is empty.
C7_AppendMakesCurrent ==
    /\ last.op = "add_generation" =>
            /\ gc.current_index = Len(gc.history) - 1
            /\ current_content(gc) = last.arg
    /\ (current_content(gc) = None) <=> (gc.history = << >>)

\* C7 witness: an append that evicted the oldest entry has just returned and
\* the appended text differs from the entry before it.
C7_Witness ==
    /\ last.op = "add_generation"
    /\ Len(added) > maxlen
    /\ Len(gc.history) = maxlen
    /\ gc.history[maxlen] # gc.history[maxlen - 1]

\* C8: navigate(i) returns history[i] and sets current_index to i iff
\* 0 <= i < len(history); for every other i it returns None and leaves
\* current_index unchanged; it never changes the history.
C8_NavigateContract ==
    [][ last'.op = "navigate" =>
            LET i == last'.arg
                h == gc.history
            IN  /\ gc'.history = h
                /\ IF 0 <= i /\ i < Len(h)
                   THEN /\ last'.ret = h[i + 1]
                        /\ last'.ret # None
                        /\ gc'.current_index = i
                   ELSE /\ last'.ret = None
                        /\ gc'.current_index = gc.current_index
      ]_vars

\* C8 witness: navigate(0) succeeded on a history of several entries whose
\* first entry differs from its last.
C8_Witness ==
    /\ last.op = "navigate"
    /\ last.arg = 0
    /\ last.ret # None
    /\ Len(gc.history) > 1
    /\ gc.current_index = 0
    /\ gc.history[1] # gc.history[Len(gc.history)]

----------------------------------------------------------------------------
(* Claims about GenerationManager (SpecMgr) *)

\* The buckets of a secondary index in which a message id occurs
BucketsHolding(index, id) == {k \in DOMAIN index : Count(index[k], id) > 0}

C10_RegisteredUntilRemoved ==
    /\ [](\A id \in MsgIds :
            /\ (id \in DOMAIN gm.contexts) <=> (BucketsHolding(gm.user_contexts, id) # {})
            /\ (id \in DOMAIN gm.contexts) <=> (BucketsHolding(gm.guild_contexts, id) # {}))
    /\ [](lastm.op = "register_message" => get_context(gm, lastm.id) = lastm.ref)
    /\ [](lastm.op = "remove_context" =>
            /\ get_context(gm, lastm.id) = NoContext
            /\ BucketsHolding(gm.user_contexts, lastm.id) = {}
            /\ BucketsHolding(gm.guild_contexts, lastm.id) = {})
    /\ [][\A id \in MsgIds :
            (get_context(gm, id) # NoContext
                /\ ~(lastm'.op = "remove_context" /\ lastm'.id = id))
            => get_context(gm', id) = get_context(gm, id)]_vars

\* C10 witness: a registered session was removed while another session of
\* the same owner and guild stays registered.
C10_Witness ==
    /\ lastm.op = "remove_context"
    /\ lastm.id < next_msg
    /\ \E id \in DOMAIN gm.contexts :
            /\ id # lastm.id
            /\ \E ref \in DOMAIN heap :
                    /\ heap[ref].message_id = lastm.id
                    /\ heap[ref].owner_id = heap[gm.contexts[id]].owner_id
                    /\ heap[ref].guild_id = heap[gm.contexts[id]].guild_id

\* C11: remove_context(id) for an id that is not in contexts (never
\* registered, or already removed) raises no error and leaves contexts, every
\* by-owner bucket and every by-scope bucket unchanged.
C11_RemoveUnknownIsNoOp ==
    [][(lastm'.op = "remove_context" /\ lastm' # lastm
            /\ lastm'.id \notin DOMAIN gm.contexts)
        => (gm' = gm /\ heap' = heap)]_vars

\* C11 witness: remove_context was called with an id no message was ever
\* registered under, while a session is registered and another one was
\* removed before.
C11_Witness ==
    /\ lastm.op = "remove_context"
    /\ lastm.id >= next_msg
    /\ Cardinality(DOMAIN gm.contexts) >= 1
    /\ next_msg - 1 > Cardinality(DOMAIN gm.contexts)

----------------------------------------------------------------------------
(* Claims about the pipeline of one LLMAgent (SpecPipeline) *)

\* A candidate is empty: the completion is empty, or empty once cleaned
EmptyCandidate(response_text) ==
    \/ response_text = ""
    \/ process_response(response_text) = ""

\* The completions of task t are back
Answered(t) == ptasks[t].completions # << >>

\* C12: if every one of the n = 3 requested candidates of a task is empty
\* (empty completion, or empty after cleaning), the callback is invoked
\* exactly once for that task, with page = 1, total_pages = 1 and the text
\* 'No valid response generated. Please try again.'.
C12_AllEmptyOnePage ==
    \A t \in DOMAIN ptasks :
        (Answered(t) /\ \A i \in 1 .. NumCompletions : EmptyCandidate(ptasks[t].completions[i]))
            => ptasks[t].calls =
                  << [text |-> "No valid response generated. Please try again.",
                      page |-> 1, total_pages |-> 1] >>

\* C12 witness: the pipeline of a task whose candidates were an empty
\* completion and completions of blanks has returned.
C12_Witness ==
    \E t \in DOMAIN ptasks :
        /\ ptasks[t].outcome = "returned"
        /\ ptasks[t].completions = <<"", " ", " ">>

\* The texts of the candidates that are not empty, in the order of the
\* completions
RECURSIVE ValidTexts(_)
ValidTexts(completions) ==
    IF completions = << >> THEN << >>
    ELSE IF EmptyCandidate(Head(completions))
         THEN ValidTexts(Tail(completions))
         ELSE <<process_response(Head(completions))>> \o ValidTexts(Tail(completions))

\* C13: when k >= 1 of the n candidates of a task are valid, the callback is
\* invoked exactly k times for it, with page = 1, 2, ..., k in ascending
\* order and total_pages = k every time, the candidates keeping the order of
\* the completions; empty candidates cause no invocation and use no page.
C13_OneCallPerValidCandidate ==
    \A t \in DOMAIN ptasks :
        LET valid == ValidTexts(ptasks[t].completions)
            calls == ptasks[t].calls
        IN  (Answered(t) /\ Len(valid) >= 1) =>
                /\ Len(calls) <= Len(valid)
                /\ \A i \in DOMAIN calls :
                        calls[i] = [text |-> valid[i], page |-> i, total_pages |-> Len(valid)]
                /\ ptasks[t].outcome = "returned" => Len(calls) = Len(valid)

\* C13 witness: a task with an empty candidate between two valid ones has
\* returned after two invocations.
C13_Witness ==
    \E t \in DOMAIN ptasks :
        /\ ptasks[t].outcome = "returned"
        /\ ptasks[t].completions = <<" y ", "", "x">>
        /\ Len(ptasks[t].calls) = 2

\* The ids of the tasks of SpecPipeline
PipeTaskIds == 1 .. MaxPipeTasks

\* C14: if processing a dequeued task fails with an exception other than
\* cancellation (in formatting, in a completion call, in response processing
\* or in the callback), the consumer loop stays alive and goes on to dequeue
\* and process the next task; only cancellation terminates the loop.
C14_FailureKeepsConsumerAlive ==
    /\ [](consumer = "terminated" => shut # "no")
    /\ [][\A t \in DOMAIN ptasks :
            (ptasks[t].outcome # "raised" /\ ptasks'[t].outcome = "raised")
                => (consumer' = "running" /\ pcur' = Idle)]_vars
    /\ \A t \in PipeTaskIds :
            (t + 1 \in DOMAIN ptasks /\ ptasks[t].outcome = "raised")
                ~> \/ shut # "no"
                   \/ t + 1 \in DOMAIN ptasks /\ ptasks[t + 1].outcome # "queued"

\* C14 witness: a task failed in its request phase, and the task enqueued
\* behind it was processed to its end afterwards.
C14_Witness ==
    /\ consumer = "running"
    /\ \E t \in DOMAIN ptasks :
            /\ t + 1 \in DOMAIN ptasks
            /\ ptasks[t].outcome = "raised"
            /\ ptasks[t].calls = << >>
            /\ ptasks[t + 1].outcome = "returned"

\* C15: under fairness, on an agent that is not shut down, every enqueued
\* task is eventually dequeued and its processing eventually ends with at
\* least one callback invocation (one per valid candidate, or the single
\* 'No valid response generated. Please try again.' page), never with none.
C15_EveryTaskGetsACallback ==
    \A t \in PipeTaskIds :
        (t \in DOMAIN ptasks)
            ~> \/ shut # "no"
               \/ /\ t \in DOMAIN ptasks
                  /\ ptasks[t].outcome \in {"returned", "raised"}
                  /\ Len(ptasks[t].calls) >= 1

\* C20: shutdown() cancels the consumer task, waits until it has terminated
\* and only then closes the HTTP session; once shutdown() was called no
\* queued task is processed and no callback is invoked any more, also when
\* it arrives in the middle of a task's callback phase, and shutdown()
\* returns with the consumer terminated.
C20_ShutdownStopsConsumer ==
    /\ [](shut = "returned" => (consumer = "terminated" /\ session = "closed"))
    /\ [](session = "closed" => consumer = "terminated")
    /\ [][shut # "no" =>
            \A t \in DOMAIN ptasks :
                /\ ptasks'[t].calls = ptasks[t].calls
                /\ ptasks[t].outcome = "queued" => ptasks'[t].outcome = "queued"]_vars
    /\ (shut = "awaiting") ~> (shut = "returned")

\* C20 witness: shutdown() has returned; it arrived after the first of
\* several callbacks of a task, with another task waiting in the queue.
C20_Witness ==
    /\ shut = "returned"
    /\ pqueue # << >>
    /\ \E t \in DOMAIN ptasks :
            /\ ptasks[t].outcome = "cancelled"
            /\ Len(ptasks[t].calls) = 1
            /\ Len(Pages(ptasks[t].completions)) > 1

----------------------------------------------------------------------------
(* Claims about one completion call (SpecCall) *)

\* The call was cancelled
Cancelled == call.cancelled_after >= 0

\* The outcome of the last attempt made
LastOutcome == call.trail[Len(call.trail)].outcome

\* C16: each completion call makes at most 10 HTTP attempts in total,
\* rate-limit retries (after a 1 s pause) and transport-failure retries
\* (after a 5 s pause) counted together; when the 10th attempt also fails the
\* call returns an empty result ('' or n empty strings) instead of raising,
\* so every call terminates and no transport or rate-limit failure reaches
\* the agent as an exception.
C16_AtMostTenAttempts ==
    /\ [](Len(call.sent) <= 10)
    /\ [](call.phase = "raised" => Cancelled)
    /\ []((call.phase = "returned" /\ LastOutcome # "ok") =>
            /\ Len(call.result) = (IF call.variant = "single" THEN 1 ELSE 3)
            /\ \A i \in DOMAIN call.result : call.result[i] = "")
    /\ (call.phase # "unstarted") ~> (call.phase \in {"returned", "raised"})

\* C16 witness: a call returned its three empty strings after ten attempts,
\* some answered with the rate-limit error and some failed in transport.
C16_Witness ==
    /\ call.phase = "returned"
    /\ call.variant = "with_n"
    /\ Len(call.sent) = 10
    /\ LastOutcome = "ClientError"
    /\ \E i \in DOMAIN call.trail : call.trail[i].outcome = "error_429"

\* C17: an attempt that receives an HTTP status other than 200, or a
\* structured error whose code is not the rate-limit code, ends the call at
\* once with an empty result: no pause and no further attempt follow,
\* whatever the number of attempts still available.
C17_UpstreamErrorAborts ==
    \A i \in DOMAIN call.trail :
        call.trail[i].outcome \in {"status_not_200", "error_other"} =>
            /\ i = Len(call.trail)
            /\ Len(call.sent) = i
            /\ call.trail[i].pause = 0
            /\ call.phase = "returned"
            /\ \A j \in DOMAIN call.result : call.result[j] = ""

\* C17 witness: the third attempt of a call, after two retries, received a
\* status other than 200 and the caller went on with the empty result.
C17_Witness ==
    /\ Len(call.trail) = 3
    /\ LastOutcome = "status_not_200"
    /\ call.caller = "callbacks"

\* C18: a structured API error carrying the rate-limit code 429 causes
\* exactly one 1-second pause followed by one further attempt that sends the
\* identical payload (provided fewer than 10 attempts were made); the
\* payload is never rebuilt or altered between the attempts of one call.
C18_RateLimitRetriesSamePayload ==
    /\ \A i \in DOMAIN call.sent : call.sent[i] = call.payload
    /\ Len(call.sent) <= Len(call.trail) + 1
    /\ \A i \in DOMAIN call.trail :
            call.trail[i].outcome = "error_429" =>
                /\ call.trail[i].pause = 1
                /\ (i = Len(call.trail) /\ call.phase = "sleep") => call.pause = 1
                /\ (i = Len(call.trail) /\ call.phase = "returned" /\ ~Cancelled) => i = 10
                /\ Len(call.sent) > i => call.sent[i + 1] = call.sent[i]

\* C18 witness: the first attempt was answered with the rate-limit error and
\* the second attempt got the completions.
C18_Witness ==
    /\ Len(call.trail) = 2
    /\ call.trail[1].outcome = "error_429"
    /\ call.trail[2].outcome = "ok"
    /\ call.phase = "returned"

\* C19: when the consumer task is cancelled while a completion call waits
\* for the limiter, awaits the HTTP response or sleeps in a backoff pause,
\* the cancellation propagates out of the retry loop, of handle_message and
\* of the consumer loop without being swallowed: no further attempt is made
\* and no callback is invoked for that task afterwards.
C19_CancellationPropagates ==
    Cancelled =>
        /\ call.phase = "raised"
        /\ call.caller = "terminated"
        /\ Len(call.sent) = call.cancelled_after

\* C19 witness: the call was cancelled in the 5-second pause after its
\* second attempt.
C19_Witness ==
    /\ Cancelled
    /\ Len(call.trail) = 2
    /\ call.trail[2].pause = 5
    /\ call.cancelled_after = 2

----------------------------------------------------------------------------
(* C21 - C30 *)

\* C21: an enqueue made on an agent after shutdown() has returned is
\* rejected, the task is not accepted: once shutdown has returned no step
\* adds a task to the queue or to the tasks handed over.
C21_EnqueueAfterShutdownRejected ==
    [][shut = "returned" => (pqueue' = pqueue /\ ptasks' = ptasks)]_vars

\* The places of task t in the queue
QueuePlaces(t) == {i \in DOMAIN pqueue : pqueue[i] = t}

\* C22: enqueue_message never blocks (an enqueue is enabled in every state,
\* also while a task is processed), and every enqueued task is in the queue
\* exactly once until it is dequeued and never after: it is the current task
\* of the consumer while it is processed, and no task that left the queue is
\* queued again.
C22_EnqueuedOnceDequeuedOnce ==
    /\ [](ENABLED PEnqueue)
    /\ [](\A t \in DOMAIN ptasks :
            /\ Cardinality(QueuePlaces(t)) = IF ptasks[t].outcome = "queued" THEN 1 ELSE 0
            /\ ptasks[t].outcome = "processing" => pcur.task = t)
    /\ [][\A t \in DOMAIN ptasks :
            ptasks[t].outcome # "queued" => ptasks'[t].outcome # "queued"]_vars

\* A second task is enqueued while the first, dequeued, is being processed
C22_Witness ==
    /\ Len(ptasks) = 2
    /\ ptasks[1].outcome = "processing"
    /\ pcur.stage = "in_callback"
    /\ pqueue = <<2>>

\* The calls of agent a that are in the limiter's block
Holding(a) == {i \in FanCalls : fcalls[a][i].phase \in {"http", "sleep_1"}}

\* C23: the three calls of one task run concurrently and no callback of the
\* task is invoked before all of them have returned: a task in its callback
\* phase has three returned calls.
C23_CallbacksAfterAllCalls ==
    \A a \in FanAgents :
        fstage[a].cbs > 0 =>
            \A i \in FanCalls : fcalls[a][i].phase = "returned"

\* One agent is invoking the callbacks of its task, all calls returned, while
\* the third call of the other agent's task has returned before its first
\* and second, both in flight
C23_Witness ==
    /\ fstage["agent1"].cbs = 2
    /\ \A i \in FanCalls : fcalls["agent1"][i].phase = "returned"
    /\ fstage["agent2"].stage = "gather"
    /\ fcalls["agent2"][1].phase = "http"
    /\ fcalls["agent2"][2].phase = "http"
    /\ fcalls["agent2"][3].phase = "returned"

\* C24: at any time the number of HTTP requests in flight across all agents
\* of the process is at most the limiter capacity 5.
C24_AtMostFiveInFlight ==
    Cardinality({c \in FanAgents \X FanCalls : fcalls[c[1]][c[2]].phase = "http"})
        <= LimiterCapacity

\* C25: a permit is taken before each attempt and given back on every exit
\* path: an agent's free permits and the calls inside the limiter's block add
\* up to 5, so all 5 are free whenever no attempt of the agent is in
\* progress, and every request in flight holds one.
C25_PermitsNeverLeak ==
    \A a \in FanAgents :
        /\ permits[a] + Cardinality(Holding(a)) = LimiterCapacity
        /\ Holding(a) = {} => permits[a] = LimiterCapacity

\* A cancelled task whose calls left by CancelledError, a return and the
\* pause of a transport failure, while the other agent's calls hold permits
C25_Witness ==
    /\ fstage["agent1"].stage = "cancelled"
    /\ fcalls["agent1"][1].phase = "cancelled"
    /\ fcalls["agent1"][2].phase = "returned"
    /\ fcalls["agent1"][3].phase = "sleep_5"
    /\ permits["agent1"] = LimiterCapacity
    /\ fcalls["agent2"][1].phase = "sleep_1"
    /\ fcalls["agent2"][2].phase = "http"
    /\ permits["agent2"] = LimiterCapacity - 2

\* C26: a request for n completions yields exactly n strings in every
\* outcome: a call that has returned has as many results as its payload
\* asks for, 3 with the n parameter and 1 for each call of the fan-out.
C26_ExactlyNResults ==
    call.phase = "returned" =>
        /\ Len(call.result) = call.payload.n
        /\ call.payload.n = IF call.variant = "with_n" THEN NumCompletions ELSE 1

\* A response of one choice to the call with n: the text and two paddings
C26_Witness ==
    /\ call.phase = "returned"
    /\ call.variant = "with_n"
    /\ LastOutcome = "ok"
    /\ call.result = <<"x", "", "">>

\* C27: for every registered session, of the slash command or of the
\* keyword trigger, a commit, delete or cancel on its message removes its
\* context: no message such an action was handled for has a context.
C27_ActionRemovesContext ==
    \A id \in clicks : get_context(gm, id) = NoContext

\* The appends to context ref made by the callbacks of task t
AppendsOf(ref, t) == {i \in DOMAIN appends[ref] : appends[ref][i] = t}

\* C28: for every session of either trigger, each callback invocation made
\* while the session is registered appends the text to the session's
\* history and renders it: a task with a callback begun on a session that is
\* still registered has appended to that session's context.
C28_CallbackAppendsAndRenders ==
    \A t \in DOMAIN tasks :
        (CallbackBegun(t) /\ get_context(gm, tasks[t].message_id) # NoContext)
            => AppendsOf(get_context(gm, tasks[t].message_id), t) # {}

\* C29: in full mode process_response is idempotent: processing the result
\* of process_response again gives that result.
C29_ProcessResponseIdempotent == txt.again = txt.out

\* The place of the first termination marker of a text, or one past its end
FirstMarker(text) ==
    IF \E i \in DOMAIN text, k \in DOMAIN termination_tags : text[i] = termination_tags[k]
    THEN CHOOSE i \in DOMAIN text :
            /\ \E k \in DOMAIN termination_tags : text[i] = termination_tags[k]
            /\ \A j \in 1 .. (i - 1), k \in DOMAIN termination_tags :
                  text[j] # termination_tags[k]
    ELSE Len(text) + 1

\* The words of a text, in order
WordsOf(text) == SelectSeq(text, LAMBDA t : t \in {"a", "b"})

\* C30: process_response cuts the text at the earliest place of any
\* termination marker: the words of the result are the words before the
\* first marker of the raw completion, and the result has no marker.
C30_CutAtEarliestMarker ==
    txt.raw # << >> =>
        /\ WordsOf(txt.out) = WordsOf(SubSeq(txt.raw, 1, FirstMarker(txt.raw) - 1))
        /\ \A i \in DOMAIN txt.out, k \in DOMAIN termination_tags :
              txt.out[i] # termination_tags[k]

----------------------------------------------------------------------------
(* C31 - C40 *)

\* The fetched messages, oldest first
OldestFirst(msgs) ==
    CHOOSE sorted \in [1 .. Cardinality(msgs) -> msgs] :
        \A i, j \in 1 .. Cardinality(msgs) :
            i < j => sorted[i].created_at < sorted[j].created_at

\* The entries '<author> text' and a newline of the messages, in order
RECURSIVE BaseEntries(_)
BaseEntries(msgs) ==
    IF msgs = << >> THEN << >>
    ELSE <<"<", Head(msgs).author, ">", " ", Head(msgs).content, "\n">>
            \o BaseEntries(Tail(msgs))

FetchedSet == {fetched[i] : i \in DOMAIN fetched}

\* C31: for a base-type model the prompt is the history entries oldest
\* first, each '<author> text' and a newline, followed by '<name> seed' when
\* a seed is given, by '<name>' and a newline when none is given and
\* suppress_name is false, and by nothing when none is given and
\* suppress_name is true (for a history of plain texts).
C31_BasePromptFormat ==
    ( /\ the_prompt.built
      /\ the_prompt.type = "base"
      /\ \A m \in FetchedSet : m.content \in {"hi", "yo"} )
    => the_prompt.text =
          BaseEntries(OldestFirst(FetchedSet))
             \o ( IF the_prompt.seed # None
                  THEN <<"<", TargetName, ">", " ", the_prompt.seed>>
                  ELSE IF ~the_prompt.suppress_name
                       THEN <<"<", TargetName, ">", "\n">>
                       ELSE << >> )

\* The fetched entries with the clear-history text
Sentinels == {m \in FetchedSet : m.content = "oblique_clear"}

\* C33: when the fetched history has an entry whose text is the
\* clear-history text, the entries older than it are left out of the prompt,
\* the entries newer than it are kept and the entry itself is not rendered
\* (for one such entry among plain texts, and a prompt that ends with the
\* entries).
C33_ClearKeepsNewer ==
    ( /\ the_prompt.built
      /\ the_prompt.type = "base"
      /\ the_prompt.seed = None
      /\ the_prompt.suppress_name
      /\ Cardinality(Sentinels) = 1
      /\ \A m \in FetchedSet \ Sentinels : m.content \in {"hi", "yo"} )
    => the_prompt.text =
          BaseEntries(OldestFirst(
              {m \in FetchedSet \ Sentinels :
                  \A c \in Sentinels : m.created_at > c.created_at}))

\* The lines of the cleaned completion, each stripped
CleanedSelf == clean_oblique_tags(RemoveTags(CutAtTag(stxt.raw), 1))

SelfLines ==
    [i \in DOMAIN SplitLines(CleanedSelf) |-> StripText(SplitLines(CleanedSelf)[i])]

\* A line opened by the tag of the target, in any case; by another speaker's
OpensTarget(line) == line # << >> /\ line[1] \in {"<carol>", "<CAROL>"}

OpensOther(line) == line # << >> /\ line[1] = "<alice>"

\* The first line of the target's turn (0 for none) and the line after its
\* last
TurnFirst ==
    IF \E i \in DOMAIN SelfLines : OpensTarget(SelfLines[i])
    THEN CHOOSE i \in DOMAIN SelfLines :
            /\ OpensTarget(SelfLines[i])
            /\ \A j \in 1 .. (i - 1) : ~OpensTarget(SelfLines[j])
    ELSE 0

TurnEnd ==
    IF \E j \in DOMAIN SelfLines : j > TurnFirst /\ OpensOther(SelfLines[j])
    THEN CHOOSE j \in DOMAIN SelfLines :
            /\ j > TurnFirst /\ OpensOther(SelfLines[j])
            /\ \A k \in (TurnFirst + 1) .. (j - 1) : ~OpensOther(SelfLines[k])
    ELSE Len(SelfLines) + 1

RECURSIVE ContentsOf(_)
ContentsOf(entries) ==
    IF entries = << >> THEN << >>
    ELSE <<Head(entries).content>> \o ContentsOf(Tail(entries))

\* The turn: the content after each opening tag of the target (when there is
\* any) and the untagged lines, joined by newlines
TurnText ==
    IF TurnFirst = 0 THEN << >>
    ELSE JoinLines(ContentsOf(
           SelectSeq(
             [k \in 1 .. (TurnEnd - TurnFirst) |->
                LET line == SelfLines[TurnFirst + k - 1]
                IN  IF OpensTarget(line)
                    THEN [tagged |-> TRUE, content |-> StripText(Tail(line))]
                    ELSE [tagged |-> FALSE, content |-> line]],
             LAMBDA e : ~(e.tagged /\ e.content = << >>))))

\* C32: in self mode with a base-type model process_response returns the
\* target's turn only: the content after the opening tag '<target>', matched
\* in any case, and the untagged lines that follow, up to the next line
\* another speaker's tag opens; when that is empty or blank it returns the
\* full cleaned text.
C32_SelfModeReturnsTargetTurn ==
    stxt.raw # << >> =>
        stxt.out = IF StripText(TurnText) # << >> THEN TurnText ELSE StripText(CleanedSelf)

\* The lines '<carol> w' and '<alice>w' yield 'w'
C32_Witness ==
    /\ stxt.raw = <<"<carol>", " ", "w", "\n", "<alice>", "w">>
    /\ stxt.out = <<"w">>

\* The session a message belongs to
SessionOf(message_id) ==
    CHOOSE ref \in DOMAIN heap : heap[ref].message_id = message_id

\* C34: a button takes effect on a session only when the acting user is the
\* session's owner; an action by another user enqueues nothing: every
\* reroll task enqueued was asked for by the owner of its session.
C34_OnlyOwnerActs ==
    \A t \in DOMAIN tasks :
        tasks[t].kind = "reroll" =>
            tasks[t].user_id = heap[SessionOf(tasks[t].message_id)].owner_id

\* C35: a reroll of a session is generated with the model stored in the
\* session's context and is enqueued on the agent that served the session's
\* initial generation.
C35_RerollSameModelSameAgent ==
    \A t \in DOMAIN tasks :
        tasks[t].kind = "reroll" =>
            /\ \E t0 \in 1 .. (t - 1) :
                  /\ tasks[t0].kind \in {"slash", "keyword"}
                  /\ tasks[t0].message_id = tasks[t].message_id
                  /\ tasks[t0].key = tasks[t].key
            /\ agents[tasks[t].key].model
                  = heap[SessionOf(tasks[t].message_id)].model_key

\* C36: in every view built by create_generation_view Prev is disabled
\* exactly when navigate(current_index - 1) would return None and Next
\* exactly when navigate(current_index + 1) would; a prev action at index 0
\* or a next action at the tail changes neither current_index nor the
\* rendered message.
C36_ViewMatchesNavigate ==
    /\ [](ui.view.kind = "generation" =>
            /\ ui.view.prev_disabled <=> (navigate(gc, gc.current_index - 1).ret = None)
            /\ ui.view.next_disabled <=> (navigate(gc, gc.current_index + 1).ret = None))
    /\ [][ ( \/ ui'.last = "prev" /\ gc.current_index = 0
             \/ ui'.last = "next" /\ gc.current_index = Len(gc.history) - 1 )
           => (gc' = gc /\ ui'.content = ui.content /\ ui'.view = ui.view) ]_vars

\* A prev action was handled at index 0 of a history of three entries: the
\* message shows the first entry, Prev disabled and Next enabled
C36_Witness ==
    /\ ui.last = "prev"
    /\ gc.current_index = 0
    /\ Len(gc.history) = 3
    /\ ui.content = gc.history[1]
    /\ ui.view.prev_disabled
    /\ ~ui.view.next_disabled

\* The session was removed: its message has no context in the manager
Removed(ref) == heap[ref].message_id \notin DOMAIN gm.contexts

\* C37: after a session's context has been removed from the manager, the
\* callbacks of a task still queued or in flight for it do not modify the
\* removed context and render nothing, and the removal neither dequeues nor
\* aborts the task.
C37_RemovedContextUntouched ==
    [][ /\ \A ref \in DOMAIN heap :
              Removed(ref) =>
                 /\ heap'[ref] = heap[ref]
                 /\ appends'[ref] = appends[ref]
                 /\ \A t \in DOMAIN tasks :
                       (tasks[t].message_id = heap[ref].message_id
                           /\ run[t].stage # "rendering")
                          => run'[t].stage # "rendering"
        /\ (\E ref \in DOMAIN heap : ~Removed(ref) /\ Removed(ref)')
              => (queue' = queue /\ run' = run /\ tasks' = tasks) ]_vars

\* The first callback of a slash session's task was invoked after the
\* session was removed and has returned: nothing was appended
C37_Witness ==
    \E t \in DOMAIN tasks :
        LET ref == SessionOf(tasks[t].message_id)
        IN  /\ tasks[t].kind = "slash"
            /\ Removed(ref)
            /\ run[t].stage = "callbacks"
            /\ run[t].next = 2
            /\ Len(run[t].cbs) >= 2
            /\ heap[ref].history = << >>
            /\ appends[ref] = << >>

\* The calls of agent a in a phase
InPhase(a, phase) == {i \in FanCalls : fcalls[a][i].phase = phase}

\* C38: a call keeps its permit during the 1-second rate-limit pause and
\* holds none during the 5-second transport-failure pause: the permits taken
\* from an agent's limiter are those of its calls awaiting a response or in
\* the 1-second pause, however many calls are in the 5-second pause.
C38_PermitHeldInShortPauseOnly ==
    \A a \in FanAgents :
        LimiterCapacity - permits[a]
            = Cardinality(InPhase(a, "http")) + Cardinality(InPhase(a, "sleep_1"))

\* One call in each pause and the third about to take a permit again
C38_Witness ==
    /\ fcalls["agent1"][1].phase = "sleep_1"
    /\ fcalls["agent1"][2].phase = "sleep_5"
    /\ fcalls["agent1"][3].phase = "limiter"
    /\ permits["agent1"] = LimiterCapacity - 1

\* C39: when all candidates of a task are empty the no-valid-response page
\* is appended to the history like a candidate and becomes the current
\* entry: it counts against the capacity of 10 and navigate reaches it.
C39_NoticeIsAHistoryEntry ==
    /\ (ui.last = "callback" /\ ui.content = NoValidText) =>
          /\ Len(gc.history) \in 1 .. maxlen
          /\ gc.history[Len(gc.history)] = NoValidText
          /\ gc.current_index = Len(gc.history) - 1
          /\ current_content(gc) = NoValidText
    /\ ui.notices = Cardinality({i \in DOMAIN gc.history : gc.history[i] = NoValidText})
          \/ Len(gc.history) = maxlen
    /\ \A i \in DOMAIN gc.history :
          gc.history[i] = NoValidText => navigate(gc, i - 1).ret = NoValidText

\* The page is the eleventh entry appended: it evicted a candidate
C39_Witness ==
    /\ ui.last = "callback"
    /\ ui.adds = maxlen + 1
    /\ Len(gc.history) = maxlen
    /\ gc.history[maxlen] = NoValidText
    /\ \A i \in 1 .. (maxlen - 1) : gc.history[i] = "x"

\* p is a prefix of s
IsPrefix(p, s) == Len(p) <= Len(s) /\ SubSeq(s, 1, Len(p)) = p

====
